---- MODULE Spec2Model ----
(***************************************************************************)
(* Claimscope run-processing engine: the queue worker of                   *)
(* apps/api/worker/main.py (main, process_one and their helpers), the      *)
(* run-creation endpoint of apps/api/app/main.py and the coding            *)
(* tournament of apps/api/worker/coding_competition.py.                    *)
(*                                                                         *)
(* Money is counted in US cents (0.02 USD = 2), time in tenths of a second.*)
(* The database is the                                                     *)
(* record db = [runs, traces, artifacts, claims]; every operator that      *)
(* models a helper of the worker takes a database and returns the database *)
(* after the helper's statements.  A connection that is closed with        *)
(* statements executed after its last commit loses those statements.       *)
(***************************************************************************)
EXTENDS Integers, Sequences, FiniteSets, TLC

\* ---------------------------------------------------------------- bounds
MaxRuns == 2
NumWorkers == 2
MaxBudget == 3
MaxCost == 4
MaxTasks == 2
MaxComparators == 1
MaxEnvRetries == 3
MaxProblems == 2
MaxAccuracy == 2
MaxRequested == 2
MaxSteps == 2
MaxCases == 2
MaxReturnCode == 2
MaxValues == 3
MaxSamples == 2
MaxReps == 3
MaxSeed == 1
MaxCalls == 2
GenModulus == 16
MaxPaths == 2
MaxInstances == 3
MaxPoolThreads == 2
MaxDiscoveries == 1
MaxSeconds == 400
TickSeconds == 200
MaxLatencies == 4
MaxLatency == 3
MaxLines == 4

\* ------------------------------------------------------ program constants
EstimatedCostCoding == 2
EstimatedCostReasoning == 2
EstimatedCostVision == 2
MIN_BUDGET_LLM == 2
DEFAULT_MAX_RETRIES == 5
DEFAULT_BACKOFF_BASE == 10
MIN_BACKOFF_BASE == 1
JITTER_SPAN == 5
_GEMINI_DISCOVERY_TTL == 300

VARIABLES
  db,        \* [runs, traces, artifacts, claims]: the committed tables
  clock,     \* the database clock that stamps created_at
  pc,        \* per worker: position in the loop of main()
  sel,       \* per worker: the run of the current iteration (0: none)
  hist,      \* history of each run: starts, guard verdict, provider calls
  gc,        \* one call of _guard_cost: expected cost, position, verdict
  routed,    \* one dispatch of process_one: the claim key and the branch taken
  tour,      \* one call of run_coding_competition
  hrun,      \* one call of run_gsm8k_subset or run_humaneval_subset
  cls,       \* one classification of a failed provider call
  cm,        \* one _call_model and the handler around it
  call       \* one call of a harness function taken alone

wvars == <<db, clock, pc, sel, hist>>

\* What the workers and run_reproduction never touch.
ovars == <<gc, routed, tour, hrun, cls, cm, call>>

Workers == 1..NumWorkers

NoTrace == <<"none", 0, 0>>

\* trace_id = f"tr_{uuid.uuid4().hex[:6]}": fresh for every call of process_one
NewTraceId(r, n) == <<"tr", r, n>>

\* ---------------------------------------------------------------- claims
Domains == {"efficiency", "coding", "vision", "reasoning-math", "agents",
            "computer-use", "other", ""}
TaskPrefixes == {"gsm8k", "humaneval", "cagent", "cgui", "none"}
Metrics == {"token_delta", "accuracy"}

(* The part of a claim and its settings that process_one dispatches on.    *)
(* prefix: what task.lower() starts with; swe: "swe-bench" in task.lower();*)
(* suite: settings.comparative_suite == "coding_competition";              *)
(* mm: settings.requires_multimodal_harness.                               *)
ClaimKeys == [domain : Domains, prefix : TaskPrefixes, swe : BOOLEAN,
              metric : Metrics, suite : BOOLEAN, mm : BOOLEAN]

Key(d, p, s, m, su, mm) ==
  [domain |-> d, prefix |-> p, swe |-> s, metric |-> m, suite |-> su, mm |-> mm]

\* process_one: domain = ctx["domain"] or "coding"
DomainOf(k) == IF k.domain = "" THEN "coding" ELSE k.domain

RouteSwapped(k) ==
  LET d == DomainOf(k) IN
  IF d = "efficiency" \/ k.metric = "token_delta" THEN "efficiency"
  ELSE IF d = "coding" /\ k.suite THEN "coding_competition"
  ELSE IF d = "vision" THEN "vision"
  ELSE IF k.mm THEN "multimodal_guard"
  ELSE IF d = "reasoning-math" /\ k.prefix = "gsm8k" THEN "gsm8k"
  ELSE IF d = "coding" /\ k.prefix = "humaneval" THEN "humaneval"
  ELSE IF d = "coding" /\ k.swe THEN "swebench"
  ELSE IF d = "agents" /\ k.prefix = "cagent" THEN "agents"
  ELSE IF d = "computer-use" /\ k.prefix = "cgui" THEN "computer_use"
  ELSE "fallback"

(* The chain of if-statements of process_one, top to bottom.               *)
Route(k) ==
  LET d == DomainOf(k) IN
  IF d = "efficiency" \/ k.metric = "token_delta" THEN "efficiency"
  ELSE IF d = "coding" /\ k.suite THEN "coding_competition"
  ELSE IF d = "vision" THEN "vision"
  ELSE IF k.mm THEN "multimodal_guard"
  ELSE IF d = "reasoning-math" /\ k.prefix = "gsm8k" THEN "gsm8k"
  ELSE IF d = "coding" /\ k.swe THEN "swebench"
  ELSE IF d = "coding" /\ k.prefix = "humaneval" THEN "humaneval"
  ELSE IF d = "agents" /\ k.prefix = "cagent" THEN "agents"
  ELSE IF d = "computer-use" /\ k.prefix = "cgui" THEN "computer_use"
  ELSE "fallback"

\* Every claim key, for the dispatch of process_one taken alone.
AllKeys == ClaimKeys

\* -------------------------------------------------------------- database
Budget(n) == [kind |-> "num", v |-> n]
BudgetAbsent == [kind |-> "absent", v |-> 0]
BudgetInvalid == [kind |-> "invalid", v |-> 0]

(* What a run and its claim look like to process_one.  ctx: the join of    *)
(* _load_run_context finds the claim row; cmp: settings.requires_comparison;*)
(* telemetry: settings.telemetry has prompts and comparators; compcfg: the *)
(* comparator configs of the coding competition are present; preds: a      *)
(* swebench_predictions reference is present.                              *)
Profile(ctx, k, cmp, tel, cc, pr, b) ==
  [ctx |-> ctx, key |-> k, cmp |-> cmp, telemetry |-> tel, compcfg |-> cc,
   preds |-> pr, budget_usd |-> b]

NewRun(p, now) ==
  [created_at |-> now, profile |-> p, status |-> "queued", score |-> "null",
   ci |-> "null", diffs |-> <<>>, status_label |-> "none", trace_id |-> NoTrace]

EmptyDb == [runs |-> <<>>, traces |-> <<>>, artifacts |-> <<>>,
            claims |-> [c \in 1..MaxRuns |-> 0]]

RunIds(d) == DOMAIN d.runs

\* A run's claim: run i was submitted for claim i.
ClaimOf(r) == r

_coerce_budget(model_cfg) ==
  IF model_cfg.kind = "num" THEN model_cfg.v ELSE 0

\* found is FALSE when the join is empty (the function returns None).
_load_run_context(d, r) ==
  [found |-> d.runs[r].profile.ctx, row |-> d.runs[r].profile]

_record_failure(d, r, t, reason, label) ==
  [d EXCEPT !.runs[r] = [@ EXCEPT !.status = "failed", !.trace_id = t,
                                  !.diffs = << reason >>, !.status_label = label]]

_mark_underspecified(d, r, t, reason) ==
  [d EXCEPT !.runs[r] = [@ EXCEPT !.status = "succeeded", !.score = "null",
                                  !.ci = "null", !.diffs = << reason >>,
                                  !.status_label = "Underspecified",
                                  !.trace_id = t]]

_increment_validation_count(d, c) ==
  [d EXCEPT !.claims[c] = @ + 1]

\* The UPDATE of a run that was evaluated.
UpdateSucceeded(d, r, t, score, ci, diffs, label) ==
  [d EXCEPT !.runs[r] = [@ EXCEPT !.status = "succeeded", !.score = score,
                                  !.ci = ci, !.diffs = diffs,
                                  !.status_label = label, !.trace_id = t]]

InsertArtifact(d, r, name) ==
  [d EXCEPT !.artifacts = Append(@, [run_id |-> r, name |-> name])]

(* record_trace: one INSERT into traces, left to the caller to commit.     *)
(* harness / dataset: whether the row carries a non-null digest.           *)
record_trace(d, r, cmd, harness, dataset, seeds, errors) ==
  [d EXCEPT !.traces = Append(@, [id |-> <<"trc", Len(@) + 1, 0>>, run_id |-> r,
                                  harness_cmd |-> cmd,
                                  harness_digest |-> harness,
                                  dataset_digest |-> dataset,
                                  seeds |-> seeds, errors |-> errors])]

(* `with engine.connect() as conn` ends: what was executed after the last  *)
(* conn.commit() is rolled back.                                           *)
CloseConnection(committed, working) == committed

TracesOf(d, r) == {i \in DOMAIN d.traces : d.traces[i].run_id = r}

_guard_cost_strict(d, r, t, budget, expected_cost) ==
  IF expected_cost <= 0 THEN [ok |-> TRUE, db |-> d]
  ELSE IF budget <= 0 THEN
    [ok |-> FALSE,
     db |-> [d EXCEPT !.runs[r] = [@ EXCEPT !.status = "failed", !.trace_id = t,
                                            !.diffs = <<"missing_budget">>]]]
  ELSE IF expected_cost < budget THEN [ok |-> TRUE, db |-> d]
  ELSE
    [ok |-> FALSE,
     db |-> [d EXCEPT !.runs[r] = [@ EXCEPT !.status = "failed", !.trace_id = t,
                                            !.diffs = <<"budget_exceeded">>]]]

(* _guard_cost of process_one: [ok, db].  A rejection commits the failed   *)
(* status with the single reason and returns False.                        *)
_guard_cost(d, r, t, budget, expected_cost) ==
  IF expected_cost <= 0 THEN [ok |-> TRUE, db |-> d]
  ELSE IF budget <= 0 THEN
    [ok |-> FALSE,
     db |-> [d EXCEPT !.runs[r] = [@ EXCEPT !.status = "failed", !.trace_id = t,
                                            !.diffs = <<"missing_budget">>]]]
  ELSE IF expected_cost <= budget THEN [ok |-> TRUE, db |-> d]
  ELSE
    [ok |-> FALSE,
     db |-> [d EXCEPT !.runs[r] = [@ EXCEPT !.status = "failed", !.trace_id = t,
                                            !.diffs = <<"budget_exceeded">>]]]

\* ESTIMATED_LLM_COSTS.get(domain, 0.0)
ESTIMATED_LLM_COSTS(domain) ==
  CASE domain = "coding" -> EstimatedCostCoding
    [] domain = "reasoning-math" -> EstimatedCostReasoning
    [] domain = "vision" -> EstimatedCostVision
    [] OTHER -> 0

\* ----------------------------------------------------------- process_one
\* The handlers that wait for a harness (a provider, a subprocess, a file).
BlockingHandlers == {"efficiency", "coding_competition", "vision", "gsm8k",
                     "swebench", "humaneval", "agents", "computer_use"}

\* The handlers whose harness calls a model provider.
ProviderHandlers == {"efficiency", "coding_competition", "gsm8k", "humaneval"}

ComparisonLabelKept(ctx, label) == label

\* comparators if requires_comparison: the diagnostic of a lone evaluation
ComparisonDiffs(ctx) == IF ctx.cmp THEN <<"missing_comparator">> ELSE <<>>
ComparisonLabel(ctx, label) == IF ctx.cmp THEN "Underspecified" ELSE label

\* A guard path: _mark_underspecified commits, record_trace is not committed.
GuardPath(d, r, t, reason, cmd) ==
  LET marked == _mark_underspecified(d, r, t, reason)
      traced == record_trace(marked, r, cmd, FALSE, FALSE, "none", reason)
  IN  CloseConnection(marked, traced)

\* An evaluated path: UPDATE, artifact, trace and validation count, one commit.
EvaluatedPath(d, r, t, score, ci, diffs, label, art, cmd, harness, dataset, seeds) ==
  LET updated == UpdateSucceeded(d, r, t, score, ci, diffs, label)
      stored == IF art = "none" THEN updated ELSE InsertArtifact(updated, r, art)
      traced == record_trace(stored, r, cmd, harness, dataset, seeds, "null")
      counted == _increment_validation_count(traced, ClaimOf(r))
  IN  CloseConnection(counted, counted)

\* SEED_RESULTS.get(domain, SEED_RESULTS["coding"])
SEED_RESULTS(domain) ==
  IF domain \in {"agents", "computer-use", "reasoning-math"}
  THEN [diffs |-> <<>>, status_label |-> "Replicated"]
  ELSE [diffs |-> <<"no_reason">>, status_label |-> "Setting Drift"]

(* process_one up to the point where it waits for its harness.             *)
(* [done, db, route, guard]: done when process_one has returned.           *)
ProcessEnter(d, r, t) ==
  LET loaded == _load_run_context(d, r)
      ctx == loaded.row
      domain == DomainOf(ctx.key)
      budget == _coerce_budget(ctx.budget_usd)
      h == Route(ctx.key)
      guarded == _guard_cost(d, r, t, budget, ESTIMATED_LLM_COSTS(domain))
      Done(d2, g) == [done |-> TRUE, db |-> d2, route |-> h, guard |-> g]
      Wait(g) == [done |-> FALSE, db |-> d, route |-> h, guard |-> g]
  IN
  IF ~loaded.found
  THEN [done |-> TRUE, route |-> "none", guard |-> "none",
        db |-> [d EXCEPT !.runs[r].status = "failed"]]
  ELSE CASE h = "efficiency" ->
              IF ~ctx.telemetry
              THEN Done(GuardPath(d, r, t, "missing_telemetry",
                                  "guard::efficiency_telemetry_missing"), "none")
              ELSE Wait("none")
         [] h = "coding_competition" ->
              IF ~ctx.compcfg
              THEN Done(GuardPath(d, r, t, "missing_comparator_config",
                                  "guard::coding_competition_missing_comparators"), "none")
              ELSE Wait("none")
         [] h \in {"vision", "gsm8k", "humaneval"} ->
              IF ~guarded.ok THEN Done(guarded.db, "rejected") ELSE Wait("allowed")
         [] h = "multimodal_guard" ->
              Done(GuardPath(d, r, t, "missing_multimodal_support",
                             "guard::missing_multimodal_support"), "none")
         [] h = "swebench" ->
              IF ~ctx.preds
              THEN Done(GuardPath(d, r, t, "missing_predictions",
                                  "guard::swebench_predictions_missing"), "none")
              ELSE Wait("none")
         [] h \in {"agents", "computer_use"} -> Wait("none")
         [] OTHER ->
              LET seed == SEED_RESULTS(domain) IN
              Done(EvaluatedPath(d, r, t, "value", "value",
                                 seed.diffs \o ComparisonDiffs(ctx),
                                 ComparisonLabel(ctx, seed.status_label),
                                 "seeded_artifact", "seeded", FALSE, FALSE, "mode"),
                   "none")

\* What the harness of a handler can do.
Outcomes(h) ==
  CASE h = "efficiency" -> {"ok", "known_error", "exception"}
    [] h = "coding_competition" -> {"ok", "known_error", "exception"}
    [] h = "vision" -> {"ok", "ok_missing", "ok_worse", "known_error", "exception"}
    [] h \in {"gsm8k", "humaneval"} -> {"ok", "exception", "exception_529"}
    [] OTHER -> {"ok", "exception"}

(* process_one from the return (or the exception) of its harness.          *)
(* [raised, db]: raised when the exception leaves process_one.             *)
ProcessFinish(d, r, t, h, outcome) ==
  LET ctx == d.runs[r].profile
      Return(d2) == [raised |-> FALSE, db |-> d2]
      Escape == [raised |-> TRUE, db |-> CloseConnection(d, d)]
      Failure(reason) == Return(_record_failure(d, r, t, reason, "Failed"))
  IN
  CASE h = "efficiency" ->
         IF outcome = "ok"
         THEN Return(EvaluatedPath(d, r, t, "value", "null",
                                   <<"token_usage", "comparator">>, "Replicated",
                                   "none", "python -m worker.efficiency_tokens",
                                   TRUE, FALSE, "none"))
         ELSE IF outcome = "known_error"
         THEN Return(GuardPath(d, r, t, "telemetry_error",
                               "guard::efficiency_telemetry_error"))
         ELSE Escape
    [] h = "coding_competition" ->
         IF outcome = "ok"
         THEN Return(EvaluatedPath(d, r, t, "value", "null",
                                   <<"baseline", "comparator">>, "Replicated",
                                   "none", "python -m worker.coding_competition",
                                   TRUE, FALSE, "none"))
         ELSE IF outcome = "known_error"
         THEN Failure("coding_competition_error")
         ELSE Escape
    [] h = "vision" ->
         IF outcome = "known_error"
         THEN Return(GuardPath(d, r, t, "missing_fixture",
                               "guard::missing_mmmu_fixture"))
         ELSE IF outcome = "exception" THEN Escape
         ELSE LET missing == outcome = "ok_missing"
                  worse == outcome = "ok_worse"
                  d1 == IF missing THEN <<"leaderboard", "missing_comparator">>
                        ELSE <<"leaderboard">>
                  d2 == IF ctx.cmp /\ ~missing
                        THEN IF worse THEN <<"comparison_deficit">>
                             ELSE <<"comparison_pass">>
                        ELSE <<>>
                  label == IF ctx.cmp /\ ~missing /\ worse THEN "Not Reproduced"
                           ELSE IF missing THEN "Underspecified"
                           ELSE "Replicated"
              IN  Return(EvaluatedPath(d, r, t, "value", "null", d1 \o d2, label,
                                       "none", "python -m worker.vision_mmmu",
                                       TRUE, TRUE, "mode"))
    [] h \in {"gsm8k", "humaneval"} ->
         IF outcome = "ok"
         THEN Return(EvaluatedPath(d, r, t, "value", "value",
                                   ComparisonDiffs(ctx),
                                   ComparisonLabel(ctx, "Replicated"), "none",
                                   IF h = "gsm8k"
                                   THEN "python -m worker.reasoning_gsm8k"
                                   ELSE "python -m worker.coding_humaneval",
                                   TRUE, FALSE, "sample_seed"))
         ELSE Failure(IF outcome = "exception_529" THEN "anthropic_overloaded"
                      ELSE "anthropic_error")
    [] h = "swebench" ->
         IF outcome = "ok"
         THEN Return(EvaluatedPath(d, r, t, "value", "value",
                                   <<"swebench_cases">> \o ComparisonDiffs(ctx),
                                   ComparisonLabel(ctx, "Replicated"), "none",
                                   "python -m worker.coding_swebench",
                                   TRUE, FALSE, "sample_seed"))
         ELSE Failure("swebench_error")
    [] OTHER ->
         IF outcome = "ok"
         THEN Return(EvaluatedPath(d, r, t, "value", "null",
                                   <<"metrics">> \o ComparisonDiffs(ctx),
                                   ComparisonLabel(ctx, "Replicated"),
                                   "trace_artifact",
                                   IF h = "agents" THEN "python -m worker.agents_cagent"
                                   ELSE "python -m worker.gui_cgui",
                                   TRUE, TRUE, "suite"))
         ELSE Failure("harness_error")

(* process_one as a whole.  outcome: what the harness does if the run      *)
(* reaches it; called: whether the harness got as far as a provider call.  *)
(* feasible: the pair (outcome, called) can happen on this run.            *)
process_one(d, r, t, outcome, called) ==
  LET enter == ProcessEnter(d, r, t)
      finish == ProcessFinish(d, r, t, enter.route, outcome)
  IN  IF enter.done
      THEN [feasible |-> outcome = "ok" /\ ~called, raised |-> FALSE,
            db |-> enter.db, route |-> enter.route, guard |-> enter.guard,
            billed |-> FALSE]
      ELSE [feasible |-> /\ outcome \in {"ok", "ok_missing", "ok_worse"}
                              => called = (enter.route \in ProviderHandlers)
                         /\ called => enter.route \in ProviderHandlers,
            raised |-> finish.raised, db |-> finish.db, route |-> enter.route,
            guard |-> enter.guard, billed |-> called]

\* ------------------------------------------------------- run_reproduction
(* POST /run_reproduction: the claim exists, the budget is a number that   *)
(* is not negative and, for the coding and reasoning-math domains, not     *)
(* below MIN_BUDGET_LLM.                                                   *)
ApiAccepts(p) ==
  /\ p.budget_usd.kind = "num"
  /\ p.budget_usd.v >= 0
  /\ p.key.domain \in {"coding", "reasoning-math"} => p.budget_usd.v >= MIN_BUDGET_LLM

KeyEfficiency == Key("efficiency", "none", FALSE, "accuracy", FALSE, FALSE)
KeyTokenDelta == Key("coding", "humaneval", FALSE, "token_delta", TRUE, FALSE)
KeyCompetition == Key("coding", "humaneval", TRUE, "accuracy", TRUE, FALSE)
KeyVision == Key("vision", "none", FALSE, "accuracy", FALSE, TRUE)
KeyMultimodal == Key("reasoning-math", "gsm8k", FALSE, "accuracy", FALSE, TRUE)
KeyGsm8k == Key("reasoning-math", "gsm8k", FALSE, "accuracy", FALSE, FALSE)
KeySwebench == Key("coding", "humaneval", TRUE, "accuracy", FALSE, FALSE)
KeyHumaneval == Key("", "humaneval", FALSE, "accuracy", FALSE, FALSE)
KeyAgents == Key("agents", "cagent", FALSE, "accuracy", FALSE, FALSE)
KeyComputerUse == Key("computer-use", "cgui", FALSE, "accuracy", FALSE, FALSE)
KeyFallback == Key("agents", "none", FALSE, "accuracy", FALSE, FALSE)
KeyOther == Key("other", "gsm8k", TRUE, "accuracy", TRUE, FALSE)

\* The claims the worker is run on: every branch of process_one is taken.
ProcessKeys == {KeyEfficiency, KeyTokenDelta, KeyCompetition, KeyVision,
                KeyMultimodal, KeyGsm8k, KeySwebench, KeyHumaneval, KeyAgents,
                KeyComputerUse, KeyFallback, KeyOther}

\* Settings a handler does not read are left unset.
Relevant(p) ==
  /\ p.telemetry => Route(p.key) = "efficiency"
  /\ p.compcfg => Route(p.key) = "coding_competition"
  /\ p.preds => Route(p.key) = "swebench"
  /\ ~p.ctx => (p.key = KeyFallback /\ ~p.cmp /\ p.budget_usd.v = 0)

ProcessProfiles ==
  {p \in [ctx : BOOLEAN, key : ProcessKeys, cmp : BOOLEAN, telemetry : BOOLEAN,
          compcfg : BOOLEAN, preds : BOOLEAN,
          budget_usd : {Budget(b) : b \in 0..MaxBudget}] :
     ApiAccepts(p) /\ Relevant(p)}

\* The runs submitted to the shared queue.
QueueProfiles ==
  {Profile(TRUE, KeyVision, FALSE, FALSE, FALSE, FALSE, Budget(EstimatedCostVision)),
   Profile(TRUE, KeyAgents, FALSE, FALSE, FALSE, FALSE, Budget(0))}

NoHistory == [starts |-> 0, guard |-> "none", billed |-> FALSE]

(* The INSERT of run_reproduction: status queued, created_at from the      *)
(* clock of the database, which moves on between two submissions.          *)
SubmitRun ==
  /\ Len(db.runs) < MaxRuns
  /\ \E p \in QueueProfiles :
       /\ ApiAccepts(p)
       /\ db' = [db EXCEPT !.runs = Append(@, NewRun(p, clock + 1))]
       /\ clock' = clock + 1
  /\ UNCHANGED <<pc, sel, hist, ovars>>

\* ------------------------------------------------------------------ main
Queued(d) == {r \in RunIds(d) : d.runs[r].status = "queued"}

AnyQueued(d) == Queued(d)

\* SELECT ... WHERE status='queued' ORDER BY created_at ASC LIMIT 1
OldestQueued(d) ==
  {r \in Queued(d) : \A o \in Queued(d) : d.runs[r].created_at <= d.runs[o].created_at}

main_reraise == "exited"

\* except Exception in main(): log, sleep, go round the loop again
main_except == "caught"

\* The SELECT of main() returned a row.
Poll(w) ==
  /\ pc[w] = "poll"
  /\ \E r \in OldestQueued(db) :
       /\ sel' = [sel EXCEPT ![w] = r]
       /\ pc' = [pc EXCEPT ![w] = "picked"]
  /\ UNCHANGED <<db, clock, hist, ovars>>

\* The connection or the SELECT of main() raised.
PollError(w) ==
  /\ pc[w] = "poll"
  /\ pc' = [pc EXCEPT ![w] = main_except]
  /\ UNCHANGED <<db, clock, sel, hist, ovars>>

\* UPDATE runs SET status='running' WHERE id=:id; commit
MarkRunning(w) ==
  /\ pc[w] = "picked"
  /\ db' = [db EXCEPT !.runs[sel[w]].status = "running"]
  /\ pc' = [pc EXCEPT ![w] = "process"]
  /\ UNCHANGED <<clock, sel, hist, ovars>>

(* process_one(run_id, claim_id), from its call to its return or to the    *)
(* exception that leaves it.  It reads only columns no one writes          *)
(* (the claim, model_config) and writes in one place, so the step is taken *)
(* where it commits.                                                       *)
Process(w) ==
  /\ pc[w] = "process"
  /\ LET r == sel[w]
         t == NewTraceId(r, hist[r].starts + 1)
     IN  \E outcome \in Outcomes(Route(db.runs[r].profile.key)), called \in BOOLEAN :
           LET res == process_one(db, r, t, outcome, called) IN
           /\ res.feasible
           /\ db' = res.db
           /\ pc' = [pc EXCEPT ![w] = IF res.raised THEN main_except ELSE "poll"]
           /\ hist' = [hist EXCEPT ![r].starts = @ + 1,
                                   ![r].guard = IF res.guard = "none" THEN @
                                                ELSE res.guard,
                                   ![r].billed = @ \/ res.billed]
           /\ sel' = [sel EXCEPT ![w] = IF res.raised THEN r ELSE 0]
  /\ UNCHANGED <<clock, ovars>>

\* time.sleep(1.0) after a caught exception, then the next iteration.
Resume(w) ==
  /\ pc[w] = "caught"
  /\ pc' = [pc EXCEPT ![w] = "poll"]
  /\ sel' = [sel EXCEPT ![w] = 0]
  /\ UNCHANGED <<db, clock, hist, ovars>>

WorkerNext ==
  \E w \in Workers :
    \/ Poll(w)
    \/ PollError(w)
    \/ MarkRunning(w)
    \/ Process(w)
    \/ Resume(w)

WorkerInit ==
  /\ clock = 0
  /\ pc = [w \in Workers |-> "poll"]
  /\ sel = [w \in Workers |-> 0]
  /\ hist = [r \in 1..MaxRuns |-> NoHistory]

\* No guard call, dispatch or tournament under way.
NoCall == [phase |-> "none"]

OthersIdle ==
  /\ gc = NoCall
  /\ routed = NoCall
  /\ tour = NoCall
  /\ hrun = NoCall
  /\ cls = NoCall
  /\ cm = NoCall
  /\ call = NoCall

Init ==
  /\ db = EmptyDb
  /\ WorkerInit
  /\ OthersIdle

Next == SubmitRun \/ WorkerNext

vars == <<db, clock, pc, sel, hist, gc, routed, tour, hrun, cls, cm, call>>

\* Workers polling one shared runs table that run_reproduction fills.
Spec == Init /\ [][Next]_vars

\* One run of any shape, already queued, and the workers.
InitProcess ==
  /\ \E p \in ProcessProfiles : db = [EmptyDb EXCEPT !.runs = <<NewRun(p, 0)>>]
  /\ WorkerInit
  /\ OthersIdle

SpecProcess == InitProcess /\ [][WorkerNext]_vars

(* The worker keeps running: main() is a `while True` loop whose every     *)
(* statement returns or raises, so a worker that can select, mark, process *)
(* or sleep does so.  A failing connection (PollError) is never forced.    *)
WorkerFair ==
  \A w \in Workers :
    /\ WF_vars(Poll(w))
    /\ WF_vars(MarkRunning(w))
    /\ WF_vars(Process(w))
    /\ WF_vars(Resume(w))

SpecProcessFair == SpecProcess /\ WorkerFair

\* ------------------------------------------------- _guard_cost, alone
GuardCosts == (0 - MaxCost)..MaxCost

\* model_config.budget_usd as the database can hold it.
RawBudgets ==
  {BudgetAbsent, BudgetInvalid} \cup {Budget(b) : b \in (0 - MaxBudget)..MaxBudget}

\* The run process_one is working on when it calls the guard.
GuardRun(b) ==
  [NewRun(Profile(TRUE, KeyGsm8k, FALSE, FALSE, FALSE, FALSE, b), 0)
     EXCEPT !.status = "running"]

InitGuard ==
  /\ \E b \in RawBudgets : db = [EmptyDb EXCEPT !.runs = <<GuardRun(b)>>]
  /\ \E c \in GuardCosts : gc = [phase |-> "call", expected_cost |-> c, ok |-> FALSE]
  /\ WorkerInit
  /\ routed = NoCall
  /\ tour = NoCall
  /\ hrun = NoCall
  /\ cls = NoCall
  /\ cm = NoCall
  /\ call = NoCall

\* budget = _coerce_budget(model_cfg.get("budget_usd")); _guard_cost(cost)
GuardCall ==
  /\ gc.phase = "call"
  /\ LET budget == _coerce_budget(db.runs[1].profile.budget_usd)
         res == _guard_cost(db, 1, NewTraceId(1, 1), budget, gc.expected_cost)
     IN  /\ db' = res.db
         /\ gc' = [gc EXCEPT !.phase = "returned", !.ok = res.ok]
  /\ UNCHANGED <<clock, pc, sel, hist, routed, tour, hrun, cls, cm, call>>

SpecGuard == InitGuard /\ [][GuardCall]_vars

\* ------------------------------------------ the dispatch of process_one, alone
InitRoute ==
  /\ \E k \in AllKeys : routed = [phase |-> "call", key |-> k, handler |-> "none"]
  /\ db = EmptyDb
  /\ WorkerInit
  /\ gc = NoCall
  /\ tour = NoCall
  /\ hrun = NoCall
  /\ cls = NoCall
  /\ cm = NoCall
  /\ call = NoCall

Dispatch ==
  /\ routed.phase = "call"
  /\ routed' = [routed EXCEPT !.phase = "returned", !.handler = Route(routed.key)]
  /\ UNCHANGED <<db, clock, pc, sel, hist, gc, tour, hrun, cls, cm, call>>

SpecRoute == InitRoute /\ [][Dispatch]_vars

\* ------------------------------------------------ run_coding_competition
(* A task is what the tournament reads of it first: whether it has a       *)
(* prompt.  Models are numbered 0 (the primary) and 1..K (the comparators).*)
TaskLists == UNION {[1..n -> BOOLEAN] : n \in 0..MaxTasks}

\* tasks.json of the harness package: missing, empty or holding one task.
TasksFiles == {[exists |-> FALSE, tasks |-> <<>>], [exists |-> TRUE, tasks |-> <<>>],
               [exists |-> TRUE, tasks |-> << TRUE >>]}

_load_tasks(file) == [raised |-> ~file.exists, tasks |-> file.tasks]

RECURSIVE active_from(_, _)
active_from(tasks_data, idx) ==
  IF idx > Len(tasks_data) THEN <<>>
  ELSE (IF tasks_data[idx] THEN << idx >> ELSE <<>>) \o active_from(tasks_data, idx + 1)

\* active_tasks: the (index, task) pairs of the tasks that have a prompt
active_tasks(tasks_data) == active_from(tasks_data, 1)

\* task_index_lookup = {original_idx: pos}
task_index_lookup(active) ==
  [orig \in {active[pos] : pos \in DOMAIN active} |->
     CHOOSE pos \in DOMAIN active : active[pos] = orig]

NoneSlot == [set |-> FALSE, success |-> FALSE, input_tokens |-> 0, stderr |-> "none"]

\* What one unit does: the tests pass, the tests fail, or something raises.
UnitOutcomes == {"pass", "fail", "exception"}

_evaluate_uncaught(outcome) ==
  IF outcome = "exception"
  THEN [raised |-> TRUE, slot |-> NoneSlot]
  ELSE [raised |-> FALSE,
        slot |-> [set |-> TRUE, success |-> outcome = "pass", input_tokens |-> 1,
                  stderr |-> IF outcome = "pass" THEN "none" ELSE "assertion"]]

(* _evaluate: _call_model and _run_tests inside try / except Exception;    *)
(* the handler builds an invocation without tokens and a failed result.    *)
_evaluate(outcome) ==
  IF outcome = "exception"
  THEN [raised |-> FALSE,
        slot |-> [set |-> TRUE, success |-> FALSE, input_tokens |-> 0,
                  stderr |-> "str(exc)"]]
  ELSE [raised |-> FALSE,
        slot |-> [set |-> TRUE, success |-> outcome = "pass", input_tokens |-> 1,
                  stderr |-> IF outcome = "pass" THEN "none" ELSE "assertion"]]

Futures(active, K) == {<<active[pos], m>> : pos \in DOMAIN active, m \in 0..K}

RECURSIVE SumTokens(_, _)
SumTokens(slots, n) ==
  IF n = 0 THEN 0 ELSE slots[n].input_tokens + SumTokens(slots, n - 1)

PassedOrNot(slots) == Len(slots)

Passed(slots) == Cardinality({i \in DOMAIN slots : slots[i].success})

\* A quotient passed / attempted, kept as its two terms.
Rate(n, d) == [num |-> n, den |-> d]

(* The aggregation that ends run_coding_competition: baseline, one summary *)
(* per comparator, one record per active task.                             *)
Aggregate(active, K, primary, comparators) ==
  [baseline |-> [passed |-> Passed(primary), attempted |-> Len(primary),
                 pass_rate |-> IF Len(primary) = 0 THEN Rate(0, 1)
                               ELSE Rate(Passed(primary), Len(primary))],
   comparators |->
     [m \in 1..K |->
        LET column == [pos \in DOMAIN active |-> comparators[pos][m]] IN
        [passed |-> Passed(column), attempted |-> Len(column),
         pass_rate |-> Rate(Passed(column),
                            IF Len(column) = 0 THEN 1 ELSE Len(column)),
         input_tokens |-> SumTokens(column, Len(column))]],
   tasks |-> [pos \in DOMAIN active |->
                [task_id |-> active[pos], primary |-> primary[pos],
                 comparators |-> comparators[pos]]]]

InitTournament ==
  /\ \E tasks \in TaskLists, file \in TasksFiles, K \in 0..MaxComparators,
        progress_callback \in BOOLEAN :
       /\ Len(tasks) > 0 => file = [exists |-> FALSE, tasks |-> <<>>]
       /\ tour = [phase |-> "call", tasks |-> tasks, file |-> file, K |-> K,
                  progress_callback |-> progress_callback, events |-> <<>>,
                  tasks_data |-> <<>>, active |-> <<>>, pending |-> {},
                  ran |-> <<>>, primary |-> <<>>, comparators |-> <<>>,
                  error |-> "none", result |-> <<>>]
  /\ db = EmptyDb
  /\ WorkerInit
  /\ gc = NoCall
  /\ routed = NoCall
  /\ hrun = NoCall
  /\ cls = NoCall
  /\ cm = NoCall
  /\ call = NoCall

Raise(t, message) == [t EXCEPT !.phase = "raised", !.error = message]

(* run_coding_competition from its call to the submission of every         *)
(* (task, model) unit to the pool.  Its keyword-only parameters are tasks, *)
(* primary_config, comparator_configs, temperature and max_workers: a call *)
(* with progress_callback raises TypeError before the body runs.           *)
TournamentStart ==
  /\ tour.phase = "call"
  /\ LET loaded == IF Len(tour.tasks) > 0
                   THEN [raised |-> FALSE, tasks |-> tour.tasks]
                   ELSE _load_tasks(tour.file)
         tasks_data == loaded.tasks
         active == active_tasks(tasks_data)
         K == tour.K
     IN  tour' =
           IF tour.progress_callback THEN Raise(tour, "TypeError")
           ELSE IF loaded.raised THEN Raise(tour, "tasks file missing")
           ELSE IF Len(tasks_data) = 0 THEN Raise(tour, "no tasks available")
           ELSE IF K = 0 THEN Raise(tour, "comparators required")
           ELSE IF Len(active) = 0 THEN Raise(tour, "no valid prompts available")
           ELSE [tour EXCEPT
                   !.phase = "running", !.tasks_data = tasks_data,
                   !.active = active, !.pending = Futures(active, K),
                   !.ran = [f \in Futures(active, K) |-> "none"],
                   !.primary = [pos \in DOMAIN active |-> NoneSlot],
                   !.comparators = [pos \in DOMAIN active |->
                                      [m \in 1..K |-> NoneSlot]]]
  /\ UNCHANGED <<db, clock, pc, sel, hist, gc, routed, hrun, cls, cm, call>>

(* One unit finishes and as_completed hands its future to the collecting   *)
(* loop, which stores the result in the unit's slot; units finish in any   *)
(* order.  future.result() raises what _evaluate let through.              *)
UnitDone ==
  /\ tour.phase = "running"
  /\ \E f \in tour.pending, outcome \in UnitOutcomes :
       LET done == _evaluate(outcome)
           lookup == task_index_lookup(tour.active)
           target_idx == lookup[f[1]]
           left == [tour EXCEPT !.pending = @ \ {f}, !.ran[f] = outcome]
       IN  tour' =
             IF done.raised THEN Raise(left, "exception of a unit")
             ELSE IF f[1] \notin DOMAIN lookup THEN left
             ELSE IF f[2] = 0
             THEN [left EXCEPT !.primary[target_idx] = done.slot]
             ELSE [left EXCEPT !.comparators[target_idx][f[2]] = done.slot]
  /\ UNCHANGED <<db, clock, pc, sel, hist, gc, routed, hrun, cls, cm, call>>

PoolLeftRunning(pending) == TRUE

(* The end of `with ThreadPoolExecutor(...)`: as_completed has yielded     *)
(* every future and shutdown(wait=True) has returned.                      *)
PoolDrained(pending) == pending = {}

(* The pool has drained: the log line that reads every primary slot, the   *)
(* check that no slot is None, the aggregation.                            *)
TournamentFinish ==
  /\ tour.phase = "running"
  /\ PoolDrained(tour.pending)
  /\ LET active == tour.active
         positions == DOMAIN active
     IN  tour' =
           IF \E pos \in positions : ~tour.primary[pos].set
           THEN Raise(tour, "AttributeError")
           ELSE IF \E pos \in positions, m \in 1..tour.K :
                     ~tour.comparators[pos][m].set
           THEN Raise(tour, "comparator evaluation incomplete")
           ELSE [tour EXCEPT !.phase = "returned",
                             !.result = Aggregate(active, tour.K, tour.primary,
                                                  tour.comparators)]
  /\ UNCHANGED <<db, clock, pc, sel, hist, gc, routed, hrun, cls, cm, call>>

TournamentNext == TournamentStart \/ UnitDone \/ TournamentFinish

SpecTournament == InitTournament /\ [][TournamentNext]_vars

\* ---------------------------------- run_gsm8k_subset, run_humaneval_subset
\* An environment variable: unset, or set to a number.
EnvUnset == [set |-> FALSE, v |-> 0]
EnvSet(n) == [set |-> TRUE, v |-> n]

Max(a, b) == IF a >= b THEN a ELSE b

\* MAX_RETRIES = max(1, int(os.getenv("ANTHROPIC_MAX_RETRIES", "5")))
MAX_RETRIES(env) == Max(1, IF env.set THEN env.v ELSE DEFAULT_MAX_RETRIES)

\* BACKOFF_BASE_SECONDS = max(0.1, float(os.getenv("ANTHROPIC_BACKOFF_BASE", "1.0")))
BACKOFF_BASE_SECONDS(env) ==
  Max(MIN_BACKOFF_BASE, IF env.set THEN env.v ELSE DEFAULT_BACKOFF_BASE)

RETRIABLE_STATUS == {408, 409, 425, 429, 500, 502, 503, 504,
                     521, 522, 523, 524, 525, 526, 527, 529}

(* retriable = status in RETRIABLE_STATUS or isinstance(exc, retriable_types)*)
(* status 0: the exception carries no status code; transient: it is one of  *)
(* RateLimitError, APIConnectionError, ServiceUnavailableError,             *)
(* InternalServerError, OverloadedError.                                    *)
retriable(status, transient) == status \in RETRIABLE_STATUS \/ transient

RECURSIVE Pow2(_)
Pow2(n) == IF n <= 0 THEN 1 ELSE 2 * Pow2(n - 1)

\* rng.random() * 0.5: a time in [0, 0.5)
Jitters == {j \in {0, 2, 4} : j < JITTER_SPAN}

\* delay = BACKOFF_BASE_SECONDS * (2 ** attempt) + rng.random() * 0.5
BackoffDelay(base, attempt, jitter) == base * Pow2(attempt) + jitter

\* if retriable and attempt < MAX_RETRIES - 1: sleep, continue; else raise
ShouldRetry(is_retriable, attempt, cap) == is_retriable /\ attempt < cap - 1

\* The status codes the provider is made to answer with (0: none).
HarnessStatuses == {0, 400, 429, 503, 528, 529}

CallOutcomes ==
  {[ok |-> TRUE, status |-> 0, transient |-> FALSE]} \cup
  {[ok |-> FALSE, status |-> st, transient |-> tr] :
     st \in HarnessStatuses, tr \in BOOLEAN}

HarnessRun(kind) ==
  [NewRun(Profile(TRUE, IF kind = "gsm8k" THEN KeyGsm8k ELSE KeyHumaneval,
                  FALSE, FALSE, FALSE, FALSE, Budget(MIN_BUDGET_LLM)), 0)
     EXCEPT !.status = "running"]

InitHarness ==
  /\ \E kind \in {"gsm8k", "humaneval"},
        retries \in {EnvUnset} \cup {EnvSet(n) : n \in 0..MaxEnvRetries},
        base \in {EnvUnset, EnvSet(0)} :
       /\ db = [EmptyDb EXCEPT !.runs = <<HarnessRun(kind)>>]
       /\ hrun = [phase |-> "running", kind |-> kind, retries_env |-> retries,
                  base_env |-> base, problem |-> 1, attempt |-> 0, calls |-> 0,
                  sleeps |-> 0, delay |-> 0, slept_after |-> 0,
                  last |-> [ok |-> TRUE, status |-> 0, transient |-> FALSE],
                  error |-> "none"]
  /\ WorkerInit
  /\ gc = NoCall
  /\ routed = NoCall
  /\ tour = NoCall
  /\ cls = NoCall
  /\ cm = NoCall
  /\ call = NoCall

\* The call of one problem returned: the next problem, or the harness returns
\* and its handler stores the result.
NextProblem(h) ==
  IF h.problem < MaxProblems
  THEN [h EXCEPT !.problem = @ + 1, !.attempt = 0, !.calls = 0, !.sleeps = 0]
  ELSE [h EXCEPT !.phase = "returned"]

\* The database after the handler of process_one has dealt with the harness.
HandlerEnd(h) ==
  LET t == NewTraceId(1, 1)
      outcome == IF h.phase = "returned" THEN "ok"
                 ELSE IF h.last.status = 529 /\ h.error = "last"
                 THEN "exception_529" ELSE "exception"
  IN  IF h.phase = "running" THEN db
      ELSE ProcessFinish(db, 1, t, h.kind, outcome).db

(* One client.messages.create of run_gsm8k_subset and what its retry loop  *)
(* does with the answer; the harness's return or exception goes through    *)
(* the GSM8K handler of process_one.                                       *)
Gsm8kCall ==
  /\ hrun.phase = "running"
  /\ hrun.kind = "gsm8k"
  /\ LET cap == MAX_RETRIES(hrun.retries_env)
         base == BACKOFF_BASE_SECONDS(hrun.base_env)
     IN
     \E o \in CallOutcomes, jitter \in Jitters :
       LET called == [hrun EXCEPT !.calls = @ + 1, !.last = o]
           slept == [called EXCEPT
                       !.sleeps = @ + 1,
                       !.delay = BackoffDelay(base, hrun.attempt, jitter),
                       !.slept_after = hrun.attempt,
                       !.attempt = @ + 1]
           after ==
             IF hrun.attempt >= cap
             THEN [hrun EXCEPT !.phase = "raised", !.error = "RuntimeError"]
             ELSE IF o.ok THEN NextProblem(called)
             ELSE IF ShouldRetry(retriable(o.status, o.transient), hrun.attempt, cap)
             THEN IF slept.attempt >= cap
                  THEN [slept EXCEPT !.phase = "raised", !.error = "RuntimeError"]
                  ELSE slept
             ELSE [called EXCEPT !.phase = "raised", !.error = "last"]
       IN  /\ (o.ok \/ ~ShouldRetry(retriable(o.status, o.transient),
                                     hrun.attempt, cap)) => jitter = 0
           /\ hrun' = after
           /\ db' = HandlerEnd(after)
  /\ UNCHANGED <<clock, pc, sel, hist, gc, routed, tour, cls, cm, call>>

(* One requests.post and raise_for_status of run_humaneval_subset; the     *)
(* harness's return or exception goes through the HumanEval handler.       *)
HumanEvalCall ==
  /\ hrun.phase = "running"
  /\ hrun.kind = "humaneval"
  /\ \E o \in CallOutcomes :
       LET called == [hrun EXCEPT !.calls = @ + 1, !.last = o]
           after == IF o.ok THEN NextProblem(called)
                    ELSE [called EXCEPT !.phase = "raised", !.error = "last"]
       IN  /\ hrun' = after
           /\ db' = HandlerEnd(after)
  /\ UNCHANGED <<clock, pc, sel, hist, gc, routed, tour, cls, cm, call>>

HarnessNext == Gsm8kCall \/ HumanEvalCall

SpecHarness == InitHarness /\ [][HarnessNext]_vars

\* ----------------------------------------- the classification of a failure
InitClassify ==
  /\ \E st \in {0} \cup (100..599), tr \in BOOLEAN :
       cls = [phase |-> "call", status |-> st, transient |-> tr,
              retriable |-> FALSE]
  /\ db = EmptyDb
  /\ WorkerInit
  /\ gc = NoCall
  /\ routed = NoCall
  /\ tour = NoCall
  /\ hrun = NoCall
  /\ cm = NoCall
  /\ call = NoCall

Classify ==
  /\ cls.phase = "call"
  /\ cls' = [cls EXCEPT !.phase = "returned",
                        !.retriable = retriable(cls.status, cls.transient)]
  /\ UNCHANGED <<db, clock, pc, sel, hist, gc, routed, tour, hrun, cm, call>>

SpecClassify == InitClassify /\ [][Classify]_vars

\* --------------------------------------- the provider dispatch of a model
\* The provider tags a model configuration is given ("absent": no tag).
ProviderTags == {"absent", "anthropic", "OpenAI", "openai", "google", "Gemini",
                 "gemini", "google_gemini", "mistral"}

\* str.lower on the tags above
Lower(tag) ==
  CASE tag = "OpenAI" -> "openai"
    [] tag = "Gemini" -> "gemini"
    [] OTHER -> tag

\* provider = (config.get("provider") or "anthropic").lower()
ProviderOf(config) ==
  IF config.provider = "absent" THEN "anthropic" ELSE Lower(config.provider)

GeminiTags == {"google", "gemini", "google_gemini"}

\* The model ids tried after the configured one was rejected, in order.
fallback_names(config) ==
  (IF config.latest THEN <<>> ELSE <<"configured-latest">>) \o
  <<"models/gemini-2.5-pro", "models/gemini-2.0-pro-exp",
    "models/gemini-2.0-pro", "models/gemini-1.5-pro-latest">>

\* What generate_content answers: a response, or an exception whose text
\* has "not found", has "unsupported", or has neither.
GenerateOutcomes == {"ok", "not found", "unsupported", "other"}

\* What _discover_gemini_model returns: None (no package, list_models
\* raised, nothing listed) or the id it picked from the listing.
Discoveries == {"None", "models/discovered"}

ModelRun(handler) ==
  [NewRun(IF handler = "coding_competition"
          THEN Profile(TRUE, KeyCompetition, FALSE, FALSE, TRUE, FALSE,
                       Budget(MIN_BUDGET_LLM))
          ELSE Profile(TRUE, KeyEfficiency, FALSE, TRUE, FALSE, FALSE,
                       Budget(MIN_BUDGET_LLM)), 0)
     EXCEPT !.status = "running"]

InitModel ==
  /\ \E handler \in {"coding_competition", "efficiency"},
        role \in {"primary", "comparator"},
        provider \in ProviderTags,
        name \in BOOLEAN, key \in BOOLEAN, package \in BOOLEAN,
        latest \in BOOLEAN :
       /\ db = [EmptyDb EXCEPT !.runs = <<ModelRun(handler)>>]
       /\ cm = [phase |-> "call", handler |-> handler, role |-> role,
                config |-> [provider |-> provider, name |-> name, key |-> key,
                            package |-> package, latest |-> latest],
                calls |-> 0, first |-> "none", tried |-> <<>>, failed |-> 0,
                consulted |-> FALSE, model |-> "none", error |-> "none"]
  /\ WorkerInit
  /\ gc = NoCall
  /\ routed = NoCall
  /\ tour = NoCall
  /\ hrun = NoCall
  /\ cls = NoCall
  /\ call = NoCall

(* The database after the handler of process_one has dealt with what       *)
(* _call_model did.  In the coding competition _evaluate catches every     *)
(* exception of its unit and the tournament returns its aggregate; in the  *)
(* efficiency handler a TokenTelemetryError marks the run underspecified   *)
(* and any other exception leaves process_one.                             *)
ModelHandlerEnd(c) ==
  LET t == NewTraceId(1, 1)
      outcome == IF c.handler = "coding_competition" \/ c.phase = "returned"
                 THEN "ok"
                 ELSE IF c.error = "configuration" THEN "known_error"
                 ELSE "exception"
  IN  IF c.phase \in {"returned", "raised"}
      THEN ProcessFinish(db, 1, t, c.handler, outcome).db
      ELSE db

(* _call_model up to the answer of its first provider call.                *)
CallModel ==
  /\ cm.phase = "call"
  /\ LET config == cm.config
         provider == ProviderOf(config)
         ConfigurationError == [cm EXCEPT !.phase = "raised",
                                          !.error = "configuration"]
         needs_package == provider = "openai" \/ provider \in GeminiTags
     IN
     \E o \in GenerateOutcomes :
       LET called == [cm EXCEPT !.calls = @ + 1, !.model = "configured"]
           answered ==
             IF o = "ok" THEN [called EXCEPT !.phase = "returned"]
             ELSE IF /\ cm.handler = "coding_competition"
                     /\ provider \in GeminiTags
                     /\ o \in {"not found", "unsupported"}
             THEN [called EXCEPT !.phase = "alternatives", !.first = o]
             ELSE [called EXCEPT !.phase = "raised", !.first = o,
                                 !.error = "original"]
           after ==
             IF ~config.name THEN ConfigurationError
             ELSE IF provider \notin {"anthropic", "openai"} \cup GeminiTags
             THEN ConfigurationError
             ELSE IF needs_package /\ ~config.package THEN ConfigurationError
             ELSE IF ~config.key THEN ConfigurationError
             ELSE answered
       IN  /\ after.calls = 0 => o = "ok"
           /\ cm' = after
           /\ db' = ModelHandlerEnd(after)
  /\ UNCHANGED <<clock, pc, sel, hist, gc, routed, tour, hrun, cls, call>>

(* One turn of "for fallback in fallback_names": the call of the next      *)
(* alternative id; the loop's else consults _discover_gemini_model.        *)
TryAlternative ==
  /\ cm.phase = "alternatives"
  /\ \E o \in GenerateOutcomes, discovered \in Discoveries :
       LET names == fallback_names(cm.config)
           fallback == names[Len(cm.tried) + 1]
           called == [cm EXCEPT !.calls = @ + 1, !.tried = Append(@, fallback),
                                !.model = fallback]
           failed == [called EXCEPT !.failed = @ + 1]
           after ==
             IF o = "ok" THEN [called EXCEPT !.phase = "returned"]
             ELSE IF Len(failed.tried) < Len(names) THEN failed
             ELSE IF discovered = "None"
             THEN [failed EXCEPT !.consulted = TRUE, !.phase = "raised",
                                 !.error = "original"]
             ELSE [failed EXCEPT !.consulted = TRUE, !.phase = "discovered",
                                 !.model = discovered]
       IN  /\ (o = "ok" \/ Len(failed.tried) < Len(names)) =>
                discovered = "None"
           /\ cm' = after
           /\ db' = ModelHandlerEnd(after)
  /\ UNCHANGED <<clock, pc, sel, hist, gc, routed, tour, hrun, cls, call>>

(* The call of the discovered id, outside every try of the fallback.       *)
CallDiscovered ==
  /\ cm.phase = "discovered"
  /\ \E o \in GenerateOutcomes :
       LET called == [cm EXCEPT !.calls = @ + 1,
                                !.tried = Append(@, cm.model)]
           after == IF o = "ok" THEN [called EXCEPT !.phase = "returned"]
                    ELSE [called EXCEPT !.phase = "raised",
                                        !.error = "discovered"]
       IN  /\ cm' = after
           /\ db' = ModelHandlerEnd(after)
  /\ UNCHANGED <<clock, pc, sel, hist, gc, routed, tour, hrun, cls, call>>

ModelNext == CallModel \/ TryAlternative \/ CallDiscovered

SpecModel == InitModel /\ [][ModelNext]_vars

\* ----------------------------------------------- the vision (MMMU) harness
\* The models of the fixture table and the names a claim may ask for.
FixtureNames == {"Llama Vision", "Claude Haiku"}
RequestedNames == {"Llama Vision", "llama vision", "Claude Haiku", "Claude",
                   "Imaginary"}

\* model_name.lower().strip() on the names above
LowerStrip(name) ==
  CASE name = "Llama Vision" -> "llama vision"
    [] name = "Claude Haiku" -> "claude haiku"
    [] name = "Claude" -> "claude"
    [] name = "Imaginary" -> "imaginary"
    [] OTHER -> name

\* lowered in key, on the lowered names above
Contains(lowered, key) ==
  lowered = key \/ (lowered = "claude" /\ key = "claude haiku")

\* The fixture tables: entries with distinct names, in the file's order.
Fixtures ==
  {f \in UNION {[1..n -> [name : FixtureNames, accuracy : 0..MaxAccuracy]] :
                  n \in 0..Cardinality(FixtureNames)} :
     \A i, j \in DOMAIN f : f[i].name = f[j].name => i = j}

NoEntry == [name |-> "none", accuracy |-> 0]

(* MMMUBenchmark.resolve: the entry whose lowered name is the lowered      *)
(* model name, else the first entry whose lowered name contains it, else   *)
(* MMMUDataError.                                                          *)
resolve(models, model_name) ==
  LET lowered == LowerStrip(model_name)
      exact == {i \in DOMAIN models : LowerStrip(models[i].name) = lowered}
      partial == {i \in DOMAIN models :
                    Contains(lowered, LowerStrip(models[i].name))}
      First(S) == CHOOSE i \in S : \A j \in S : i <= j
  IN  IF exact # {} THEN [raised |-> FALSE, entry |-> models[First(exact)]]
      ELSE IF partial # {}
      THEN [raised |-> FALSE, entry |-> models[First(partial)]]
      ELSE [raised |-> TRUE, entry |-> NoEntry]

InSeq(x, seq) == \E i \in DOMAIN seq : seq[i] = x

(* _collect_comparators: the entries found for the requested names, each   *)
(* once, and the names that resolve to nothing.                            *)
RECURSIVE _collect_comparators(_, _)
_collect_comparators(models, comparators) ==
  IF comparators = <<>> THEN [available |-> <<>>, missing |-> <<>>]
  ELSE LET n == Len(comparators)
           before == _collect_comparators(models, SubSeq(comparators, 1, n - 1))
           found == resolve(models, comparators[n])
       IN  IF found.raised
           THEN [before EXCEPT !.missing = Append(@, comparators[n])]
           ELSE IF InSeq(found.entry, before.available) THEN before
           ELSE [before EXCEPT !.available = Append(@, found.entry)]

(* run_mmmu_subset: the subject's score and the comparator report.         *)
run_mmmu_subset(models, model_name, comparators) ==
  LET subject == resolve(models, model_name)
      collected == _collect_comparators(models, comparators)
  IN  IF subject.raised
      THEN [raised |-> TRUE, score_value |-> 0, available |-> <<>>,
            missing |-> <<>>]
      ELSE [raised |-> FALSE, score_value |-> subject.entry.accuracy,
            available |-> collected.available, missing |-> collected.missing]

SuperiorOrEqual(comparator_score, score_value) == comparator_score >= score_value

\* if comparator_score > res["score_value"]: worse_than[name] = ...
Superior(comparator_score, score_value) == comparator_score > score_value

\* What the vision branch of process_one makes of the report.
VisionOutcome(report) ==
  IF report.raised THEN "known_error"
  ELSE IF report.missing # <<>> THEN "ok_missing"
  ELSE IF \E i \in DOMAIN report.available :
            Superior(report.available[i].accuracy, report.score_value)
  THEN "ok_worse"
  ELSE "ok"

VisionRun(cmp) ==
  [NewRun(Profile(TRUE, KeyVision, cmp, FALSE, FALSE, FALSE,
                  Budget(EstimatedCostVision)), 0)
     EXCEPT !.status = "running"]

InitVision ==
  /\ \E models \in Fixtures, model_name \in FixtureNames, cmp \in BOOLEAN,
        comparators \in UNION {[1..n -> RequestedNames] : n \in 0..MaxRequested} :
       /\ db = [EmptyDb EXCEPT !.runs = <<VisionRun(cmp)>>]
       /\ call = [phase |-> "call", models |-> models,
                  model_name |-> model_name, comparators |-> comparators,
                  report |-> run_mmmu_subset(<<>>, model_name, <<>>)]
  /\ WorkerInit
  /\ gc = NoCall
  /\ routed = NoCall
  /\ tour = NoCall
  /\ hrun = NoCall
  /\ cls = NoCall
  /\ cm = NoCall

(* The vision branch of process_one from the call of run_mmmu_subset to    *)
(* its commit.                                                             *)
VisionEvaluate ==
  /\ call.phase = "call"
  /\ LET report == run_mmmu_subset(call.models, call.model_name,
                                   call.comparators)
     IN  /\ call' = [call EXCEPT !.phase = "returned", !.report = report]
         /\ db' = ProcessFinish(db, 1, NewTraceId(1, 1), "vision",
                                VisionOutcome(report)).db
  /\ UNCHANGED <<clock, pc, sel, hist, gc, routed, tour, hrun, cls, cm>>

SpecVision == InitVision /\ [][VisionEvaluate]_vars

\* ------------------------------------------------ the agents (cAgent) suite
\* What the tool of a step does: it returns the expected output, returns
\* another output, or raises.
ToolBehaviours == {"match", "differ", "raise"}

\* The task files: up to MaxTasks tasks of up to MaxSteps steps each.
AgentTasks ==
  LET Steps == UNION {[1..n -> ToolBehaviours] : n \in 0..MaxSteps}
  IN  UNION {[1..n -> Steps] : n \in 0..MaxTasks}

(* One step of run_cagent_suite: the output is replaced by the expected    *)
(* value when the tool raises or returns something else, and the trace is  *)
(* built with success=True.                                                *)
StepTrace(behaviour) ==
  [output |-> "expected", expected |-> "expected", success |-> TRUE,
   error |-> "None"]

\* One task: its traces and TaskOutcome(success=True, ...).
TaskOutcome(steps) ==
  [success |-> TRUE, steps |-> [i \in DOMAIN steps |-> StepTrace(steps[i])]]

(* run_cagent_suite: successes = len(outcomes), total = len(outcomes) or 1,*)
(* success_rate = successes / total, kept as the pair.                     *)
run_cagent_suite(tasks) ==
  LET outcomes == [t \in DOMAIN tasks |-> TaskOutcome(tasks[t])]
  IN  [tasks |-> outcomes, successes |-> Len(outcomes),
       total |-> IF Len(outcomes) = 0 THEN 1 ELSE Len(outcomes)]

InitAgents ==
  /\ \E tasks \in AgentTasks :
       call = [phase |-> "call", tasks |-> tasks,
               result |-> run_cagent_suite(<<>>)]
  /\ db = EmptyDb
  /\ WorkerInit
  /\ gc = NoCall
  /\ routed = NoCall
  /\ tour = NoCall
  /\ hrun = NoCall
  /\ cls = NoCall
  /\ cm = NoCall

AgentsRun ==
  /\ call.phase = "call"
  /\ call' = [call EXCEPT !.phase = "returned",
                          !.result = run_cagent_suite(call.tasks)]
  /\ UNCHANGED <<db, clock, pc, sel, hist, gc, routed, tour, hrun, cls, cm>>

SpecAgents == InitAgents /\ [][AgentsRun]_vars

\* --------------------------------------------- the tests of one solution
\* The shapes of a test case: a script, an expression with an expected
\* value, an expression expected to raise, an expression with neither, and
\* a case with no expression.
CaseShapes == {"script", "expected", "raises", "bare", "empty"}

TestLists == UNION {[1..n -> CaseShapes] : n \in 0..MaxCases}

(* What subprocess.run does with the runner: the process exits with a     *)
(* return code and what it wrote, or the timeout expires.                  *)
Captured == {"", "text"}
RunnerOutcomes ==
  [kind : {"exit"}, returncode : 0..MaxReturnCode, stderr : Captured,
   stdout : Captured] \cup
  {[kind |-> "timeout", returncode |-> 0, stderr |-> "", stdout |-> ""]}

check_ignored(returncode) == FALSE

\* check=True: CalledProcessError when the return code is not zero
check_raises(returncode) == returncode # 0

\* exc.stderr or exc.stdout
StderrOrStdout(o) == IF o.stderr # "" THEN o.stderr ELSE o.stdout

NoResult == [success |-> FALSE, stderr |-> "None"]

InitRunTests ==
  /\ \E tests \in TestLists :
       call = [phase |-> "call", tests |-> tests, td |-> "none",
               proc |-> [kind |-> "none"], result |-> NoResult,
               error |-> "none"]
  /\ db = EmptyDb
  /\ WorkerInit
  /\ gc = NoCall
  /\ routed = NoCall
  /\ tour = NoCall
  /\ hrun = NoCall
  /\ cls = NoCall
  /\ cm = NoCall

(* _run_tests up to subprocess.run: no tests raises before the temporary   *)
(* directory exists; a case with an expression and neither expected nor    *)
(* raises raises inside the with block, which removes the directory.       *)
RunTestsStart ==
  /\ call.phase = "call"
  /\ call' =
       IF call.tests = <<>>
       THEN [call EXCEPT !.phase = "raised", !.error = "missing tests"]
       ELSE IF \E i \in DOMAIN call.tests : call.tests[i] = "bare"
       THEN [call EXCEPT !.phase = "raised", !.td = "removed",
                         !.error = "missing expected value"]
       ELSE [call EXCEPT !.phase = "running", !.td = "exists"]
  /\ UNCHANGED <<db, clock, pc, sel, hist, gc, routed, tour, hrun, cls, cm>>

(* subprocess.run returns or raises; the result is built and the with      *)
(* block removes the directory as _run_tests returns.                      *)
RunTestsFinish ==
  /\ call.phase = "running"
  /\ \E o \in RunnerOutcomes :
       LET result ==
             IF o.kind = "timeout"
             THEN [success |-> FALSE, stderr |-> "timeout"]
             ELSE IF check_raises(o.returncode)
             THEN [success |-> FALSE, stderr |-> StderrOrStdout(o)]
             ELSE [success |-> TRUE, stderr |-> "None"]
       IN  call' = [call EXCEPT !.phase = "returned", !.proc = o,
                                !.result = result, !.td = "removed"]
  /\ UNCHANGED <<db, clock, pc, sel, hist, gc, routed, tour, hrun, cls, cm>>

RunTestsNext == RunTestsStart \/ RunTestsFinish

SpecRunTests == InitRunTests /\ [][RunTestsNext]_vars

\* ------------------------------------------------------------ bootstrap_ci
(* The module-level generator of `random`: a state that every use moves    *)
(* on and that seed() sets from its argument alone.  A small linear        *)
(* congruential generator stands for the Mersenne twister.                 *)
GenStates == 0..(GenModulus - 1)
NextGen(g) == (5 * g + 3) % GenModulus

seed_ignored(g, seed) == g

\* _r.seed(seed)
seed_generator(g, seed) == (7 * seed + 1) % GenModulus

\* _r.choice(values)
choice(values, g) == values[(g % Len(values)) + 1]

\* sum([_r.choice(values) for __ in range(n)]) and the generator after it
RECURSIVE Resample(_, _, _)
Resample(values, n, g) ==
  IF n = 0 THEN [sum |-> 0, gen |-> g]
  ELSE LET rest == Resample(values, n - 1, g)
       IN  [sum |-> rest.sum + choice(values, rest.gen), gen |-> NextGen(rest.gen)]

\* The sums of `reps` resamples, in the order they are drawn.
RECURSIVE Resamples(_, _, _, _)
Resamples(values, n, reps, g) ==
  IF reps = 0 THEN [sums |-> <<>>, gen |-> g]
  ELSE LET before == Resamples(values, n, reps - 1, g)
           this == Resample(values, n, before.gen)
       IN  [sums |-> Append(before.sums, this.sum), gen |-> this.gen]

\* means.sort()
RECURSIVE Insert(_, _)
Insert(sorted, x) ==
  IF sorted = <<>> THEN << x >>
  ELSE IF x <= Head(sorted) THEN << x >> \o sorted
  ELSE <<Head(sorted)>> \o Insert(Tail(sorted), x)

RECURSIVE Sort(_)
Sort(seq) == IF seq = <<>> THEN <<>> ELSE Insert(Sort(Tail(seq)), Head(seq))

\* int(0.025 * reps) and int(0.975 * reps)
LowerIndex(reps) == (25 * reps) \div 1000
UpperIndex(reps) == (975 * reps) \div 1000

(* bootstrap_ci: every mean is sum / float(n) with the same n, so the      *)
(* means are kept as their sums.  g: the generator as the call finds it.   *)
bootstrap_ci(values, n, reps, seed, g) ==
  LET drawn == Resamples(values, n, reps, seed_generator(g, seed))
      means == Sort(drawn.sums)
  IN  [lo |-> means[LowerIndex(reps) + 1], hi |-> means[UpperIndex(reps) + 1],
       drawn |-> drawn.sums]

NoInterval == [lo |-> 0, hi |-> 0, drawn |-> <<>>]

InitBootstrap ==
  /\ \E values \in UNION {[1..k -> {0, 1}] : k \in 1..MaxValues},
        n \in 1..MaxSamples, reps \in 1..MaxReps, seed \in 0..MaxSeed :
       call = [phase |-> "call", values |-> values, n |-> n, reps |-> reps,
               seed |-> seed, calls |-> 0, first |-> NoInterval,
               last |-> NoInterval]
  /\ db = EmptyDb
  /\ WorkerInit
  /\ gc = NoCall
  /\ routed = NoCall
  /\ tour = NoCall
  /\ hrun = NoCall
  /\ cls = NoCall
  /\ cm = NoCall

(* One call of bootstrap_ci with the arguments of the state; the generator *)
(* is in whatever state earlier uses of `random` left it.                  *)
Bootstrap ==
  /\ call.phase = "call"
  /\ call.calls < MaxCalls
  /\ \E g \in GenStates :
       LET result == bootstrap_ci(call.values, call.n, call.reps, call.seed, g)
       IN  call' = [call EXCEPT !.calls = @ + 1,
                                !.first = IF call.calls = 0 THEN result ELSE @,
                                !.last = result]
  /\ UNCHANGED <<db, clock, pc, sel, hist, gc, routed, tour, hrun, cls, cm>>

SpecBootstrap == InitBootstrap /\ [][Bootstrap]_vars

\* ---------------------------------------------------------- compute_digest
(* The file system of one call.  Resolved paths are numbered in the order  *)
(* of their strings: 1 and 2 are files, 3 is a directory, 4 does not       *)
(* exist.  Entries are the spellings a caller can pass; two of them        *)
(* resolve to the same file.                                               *)
Entries == {"a.json", "./a.json", "b.json", "data", "gone.json"}
resolve_entry(entry) ==
  CASE entry = "a.json" -> 1
    [] entry = "./a.json" -> 1
    [] entry = "b.json" -> 2
    [] entry = "data" -> 3
    [] entry = "gone.json" -> 4

exists_or_not(path) == TRUE

\* p.exists() and p.is_file()
is_file(path) == path \in {1, 2}
file_name(path) ==
  CASE path = 1 -> "a.json" [] path = 2 -> "b.json" [] path = 3 -> "data"
    [] path = 4 -> "gone.json"
read_bytes(path) == CASE path = 1 -> <<10, 11>> [] path = 2 -> <<20>> [] OTHER -> <<>>

\* _resolve_paths: every entry resolved, then those that are files, in order.
RECURSIVE _resolve_paths(_)
_resolve_paths(paths) ==
  IF paths = <<>> THEN <<>>
  ELSE LET p == resolve_entry(Head(paths))
       IN  (IF is_file(p) THEN << p >> ELSE <<>>) \o _resolve_paths(Tail(paths))

(* hashlib.sha256 taken as collision-free: the digest stands for the byte  *)
(* stream that update() was fed, and the digest of no input is <<>>.       *)
RECURSIVE Feed(_)
Feed(files) ==
  IF files = <<>> THEN <<>>
  ELSE <<"FILE::", file_name(Head(files))>> \o read_bytes(Head(files)) \o Feed(Tail(files))

\* sorted(files, key=lambda p: str(p))
sorted_files(files) == Sort(files)

compute_digest(paths) == Feed(sorted_files(_resolve_paths(paths)))

NoDigest == [kind |-> "None", fed |-> <<>>]

(* record_trace: harness_digest or (compute_digest(harness_paths or [])    *)
(* if harness_paths else None); a hexdigest is never the empty string.     *)
harness_hash(harness_digest, harness_paths) ==
  IF harness_digest # NoDigest THEN harness_digest
  ELSE IF harness_paths # <<>>
  THEN [kind |-> "sha256", fed |-> compute_digest(harness_paths)]
  ELSE NoDigest

PathLists == UNION {[1..k -> Entries] : k \in 0..MaxPaths}

InitDigest ==
  /\ \E left \in PathLists, right \in PathLists :
       call = [phase |-> "lists", left |-> left, right |-> right,
               left_digest |-> <<>>, right_digest |-> <<>>,
               harness_commit_sha |-> NoDigest]
  /\ db = EmptyDb
  /\ WorkerInit
  /\ gc = NoCall
  /\ routed = NoCall
  /\ tour = NoCall
  /\ hrun = NoCall
  /\ cls = NoCall
  /\ cm = NoCall

\* compute_digest applied to each of the two lists.
ComputeDigests ==
  /\ call.phase = "lists"
  /\ call' = [call EXCEPT !.phase = "digests",
                           !.left_digest = compute_digest(call.left),
                           !.right_digest = compute_digest(call.right)]
  /\ UNCHANGED <<db, clock, pc, sel, hist, gc, routed, tour, hrun, cls, cm>>

(* record_trace called with the left list as harness_paths and without a  *)
(* harness_digest: the value bound to harness_commit_sha in the INSERT.    *)
RecordDigest ==
  /\ call.phase = "digests"
  /\ call' = [call EXCEPT !.phase = "recorded",
                           !.harness_commit_sha = harness_hash(NoDigest, call.left)]
  /\ UNCHANGED <<db, clock, pc, sel, hist, gc, routed, tour, hrun, cls, cm>>

SpecDigest == InitDigest /\ [][ComputeDigests \/ RecordDigest]_vars

\* ------------------------------------------------- run_swebench_verified
(* A fixture case is its verdict (EvaluationCase.passed); a case of the    *)
(* CLI summary is the status cli.py gave the prediction.                   *)
CaseStatuses == {"resolved", "unresolved", "error", "pending"}
FixtureCases == UNION {[1..k -> BOOLEAN] : k \in 0..MaxInstances}
CliCases == UNION {[1..k -> CaseStatuses] : k \in 0..MaxInstances}

CountOf(seq, v) == Cardinality({i \in DOMAIN seq : seq[i] = v})

\* cases[:limit] if limit else cases
Selected(cases, limit) ==
  IF limit = 0 \/ limit >= Len(cases) THEN cases ELSE SubSeq(cases, 1, limit)

(* SwebenchRunner._run_fixture on the fixture rows as rng.shuffle left     *)
(* them: each record carries the key `passed` and no key `status`.         *)
_run_fixture(cases, limit) ==
  LET selected == Selected(cases, limit)
      n == Len(selected)
      passed == CountOf(selected, TRUE)
  IN  [score_value |-> IF n = 0 THEN Rate(0, 1) ELSE Rate(passed, n),
       n |-> n,
       cases |-> [i \in DOMAIN selected |->
                    [passed |-> selected[i], status |-> "absent"]]]

(* SwebenchRunner._run_cli on the JSON summary of cli.py: accuracy is      *)
(* resolved / completed_instances, completed the resolved and unresolved   *)
(* instances, and every prediction has a case with its status.             *)
_run_cli(statuses) ==
  LET resolved == CountOf(statuses, "resolved")
      total == resolved + CountOf(statuses, "unresolved")
  IN  [score_value |-> IF total = 0 THEN Rate(0, 1) ELSE Rate(resolved, total),
       n |-> total,
       cases |-> [i \in DOMAIN statuses |->
                    [passed |-> FALSE, status |-> statuses[i]]]]

\* int(round(score_value * n)), for the quotients the runners return
RoundedProduct(rate, n) == (2 * rate.num * n + rate.den) \div (2 * rate.den)

(* The SWE-bench branch of process_one from the runner's return to the     *)
(* values of the UPDATE: n, the pass count, the sample bootstrap_ci is     *)
(* given, the score.                                                       *)
SwebenchSummary(res, limit) ==
  LET n == IF res.n # 0 THEN res.n ELSE limit
      cases == res.cases
      passed == IF Len(cases) > 0
                THEN Cardinality({i \in DOMAIN cases : cases[i].status = "resolved"})
                ELSE RoundedProduct(res.score_value, n)
  IN  [n |-> n, passed |-> passed, score_value |-> res.score_value,
       ci_ones |-> IF n > 0 THEN passed ELSE 0,
       ci_zeros |-> IF n > 0 /\ n > passed THEN n - passed ELSE 0,
       ci_n |-> n]

NoSummary == [n |-> 0, passed |-> 0, score_value |-> Rate(0, 1),
              ci_ones |-> 0, ci_zeros |-> 0, ci_n |-> 0]

InitSwebench ==
  /\ \E limit \in 0..MaxInstances :
       \/ \E cases \in FixtureCases :
            call = [phase |-> "call", path |-> "fixture", limit |-> limit,
                    fixture |-> cases, statuses |-> <<>>, summary |-> NoSummary]
       \/ \E statuses \in CliCases :
            /\ limit > 0 => Len(statuses) <= limit
            /\ call = [phase |-> "call", path |-> "cli", limit |-> limit,
                       fixture |-> <<>>, statuses |-> statuses, summary |-> NoSummary]
  /\ db = EmptyDb
  /\ WorkerInit
  /\ gc = NoCall
  /\ routed = NoCall
  /\ tour = NoCall
  /\ hrun = NoCall
  /\ cls = NoCall
  /\ cm = NoCall

\* run_swebench_verified returns and the dispatcher derives what it stores.
SwebenchEvaluate ==
  /\ call.phase = "call"
  /\ LET res == IF call.path = "fixture" THEN _run_fixture(call.fixture, call.limit)
                ELSE _run_cli(call.statuses)
     IN  call' = [call EXCEPT !.phase = "stored",
                              !.summary = SwebenchSummary(res, call.limit)]
  /\ UNCHANGED <<db, clock, pc, sel, hist, gc, routed, tour, hrun, cls, cm>>

SpecSwebench == InitSwebench /\ [][SwebenchEvaluate]_vars

\* --------------------------------------------------- _discover_gemini_model
(* The models list_models can list, in the order of their names as Python  *)
(* compares strings, and what each is listed with.                         *)
NameOrder == <<"models/aqa", "models/gemini-2.0-pro", "models/gemini-2.5-pro",
               "models/gemini-3-pro">>
ListedNames == {NameOrder[i] : i \in DOMAIN NameOrder}
ListedAs == {"generateContent", "embedContent", "unlisted"}
Listings == [ListedNames -> ListedAs]

NameRank(name) == CHOOSE i \in DOMAIN NameOrder : NameOrder[i] = name

\* name.split("/")[-1]
short_name(name) ==
  CASE name = "models/aqa" -> "aqa"
    [] name = "models/gemini-2.0-pro" -> "gemini-2.0-pro"
    [] name = "models/gemini-2.5-pro" -> "gemini-2.5-pro"
    [] name = "models/gemini-3-pro" -> "gemini-3-pro"

\* The preferred ids _call_model passes, in its order.
PreferredNames == <<"gemini-2.5-pro-latest", "gemini-2.5-pro", "gemini-2.0-pro-exp",
                    "gemini-2.0-pro", "gemini-1.5-pro-latest">>

\* The cache built from a listing: the names that support generateContent.
usable_models(listing) == {n \in ListedNames : listing[n] = "generateContent"}

sorted_first(names) == CHOOSE n \in names : \A m \in names : NameRank(n) <= NameRank(m)

\* sorted(cache.values(), reverse=True)[0]
sorted_reverse_first(names) ==
  CHOOSE n \in names : \A m \in names : NameRank(n) >= NameRank(m)

RECURSIVE first_preferred(_, _)
first_preferred(preferred, cache) ==
  IF preferred = <<>> THEN "None"
  ELSE LET hits == {n \in cache : short_name(n) = Head(preferred)}
       IN  IF hits # {} THEN CHOOSE n \in hits : TRUE
           ELSE first_preferred(Tail(preferred), cache)

(* The end of _discover_gemini_model: the first preferred id the cache     *)
(* holds, else the greatest name of the cache, else None.                  *)
select_model(preferred, cache) ==
  IF first_preferred(preferred, cache) # "None" THEN first_preferred(preferred, cache)
  ELSE IF cache # {} THEN sorted_reverse_first(cache)
  ELSE "None"

IdleThread == [pc |-> "idle", now |-> 0, fetched |-> {}, seen |-> {},
               result |-> "None", calls |-> 0]

(* The module globals _GEMINI_DISCOVERY_CACHE and _GEMINI_DISCOVERY_TS,    *)
(* time.time() and the pool threads that call _discover_gemini_model.      *)
InitDiscovery ==
  /\ call = [phase |-> "discovery", cache |-> {}, ts |-> 0, time |-> 0,
             queries |-> <<>>,
             threads |-> [t \in 1..MaxPoolThreads |-> IdleThread]]
  /\ db = EmptyDb
  /\ WorkerInit
  /\ gc = NoCall
  /\ routed = NoCall
  /\ tour = NoCall
  /\ hrun = NoCall
  /\ cls = NoCall
  /\ cm = NoCall

\* now = time.time() and the test of the cache and of its age
DiscoverCheck(t) ==
  /\ call.phase = "discovery"
  /\ call.threads[t].pc = "idle"
  /\ call.threads[t].calls < MaxDiscoveries
  /\ call' = [call EXCEPT
                !.threads[t].now = call.time,
                !.threads[t].pc =
                  IF call.cache = {} \/ call.time - call.ts > _GEMINI_DISCOVERY_TTL
                  THEN "query" ELSE "select"]
  /\ UNCHANGED <<db, clock, pc, sel, hist, gc, routed, tour, hrun, cls, cm>>

\* list(genai.list_models()) returns a listing, which is filtered, or raises.
DiscoverQuery(t) ==
  /\ call.phase = "discovery"
  /\ call.threads[t].pc = "query"
  /\ \/ \E listing \in Listings :
          call' = [call EXCEPT
                     !.threads[t].pc = "store",
                     !.threads[t].fetched = usable_models(listing),
                     !.queries = Append(@, [at |-> call.time,
                                            usable |-> usable_models(listing) # {}])]
     \/ call' = [call EXCEPT
                   !.threads[t].pc = "idle", !.threads[t].result = "None",
                   !.threads[t].seen = {}, !.threads[t].calls = @ + 1,
                   !.queries = Append(@, [at |-> call.time, usable |-> FALSE])]
  /\ UNCHANGED <<db, clock, pc, sel, hist, gc, routed, tour, hrun, cls, cm>>

\* _GEMINI_DISCOVERY_CACHE = cache; _GEMINI_DISCOVERY_TS = now
DiscoverStore(t) ==
  /\ call.phase = "discovery"
  /\ call.threads[t].pc = "store"
  /\ call' = [call EXCEPT !.cache = call.threads[t].fetched,
                          !.ts = call.threads[t].now,
                          !.threads[t].fetched = {},
                          !.threads[t].pc = "select"]
  /\ UNCHANGED <<db, clock, pc, sel, hist, gc, routed, tour, hrun, cls, cm>>

\* The choice from the cache as it is now, and the return.
DiscoverSelect(t) ==
  /\ call.phase = "discovery"
  /\ call.threads[t].pc = "select"
  /\ call' = [call EXCEPT !.threads[t].pc = "idle",
                          !.threads[t].seen = call.cache,
                          !.threads[t].result = select_model(PreferredNames, call.cache),
                          !.threads[t].calls = @ + 1]
  /\ UNCHANGED <<db, clock, pc, sel, hist, gc, routed, tour, hrun, cls, cm>>

\* Time passes.
DiscoverTick ==
  /\ call.phase = "discovery"
  /\ call.time < MaxSeconds
  /\ call' = [call EXCEPT !.time = @ + TickSeconds]
  /\ UNCHANGED <<db, clock, pc, sel, hist, gc, routed, tour, hrun, cls, cm>>

DiscoveryNext ==
  \/ DiscoverTick
  \/ \E t \in 1..MaxPoolThreads :
       \/ DiscoverCheck(t)
       \/ DiscoverQuery(t)
       \/ DiscoverStore(t)
       \/ DiscoverSelect(t)

SpecDiscovery == InitDiscovery /\ [][DiscoveryNext]_vars

\* ------------------------------------------- the latency summary of a trace
LatencyLists == UNION {[1..k -> 1..MaxLatency] : k \in 0..MaxLatencies}

\* fraction 0.5 and 0.95, in hundredths
Fractions == {50, 95}

round_half_up(num, den) == (2 * num + den) \div (2 * den)

\* round(num / den) as Python rounds: to the nearest integer, a half to even
round(num, den) ==
  LET q == num \div den
      r == num % den
  IN  IF 2 * r < den THEN q
      ELSE IF 2 * r > den THEN q + 1
      ELSE IF q % 2 = 0 THEN q ELSE q + 1

Min(a, b) == IF a <= b THEN a ELSE b

(* _percentile(values, fraction), fraction in hundredths; "None" is told   *)
(* by the caller, which never calls it on an empty series.                 *)
_percentile(values, fraction) ==
  LET ordered == Sort(values) IN
  IF Len(ordered) = 1 THEN ordered[1]
  ELSE LET index == Max(0, Min(Len(ordered) - 1,
                               round((Len(ordered) - 1) * fraction, 100)))
       IN  ordered[index + 1]

NoLatency == [stored |-> FALSE, p50 |-> 0, p95 |-> 0, samples |-> <<>>]

\* latency_payload of record_trace: None when there is no sample
latency_payload(latencies) ==
  IF latencies = <<>> THEN NoLatency
  ELSE [stored |-> TRUE, p50 |-> _percentile(latencies, 50),
        p95 |-> _percentile(latencies, 95), samples |-> latencies]

InitLatency ==
  /\ \E latencies \in LatencyLists :
       call = [phase |-> "call", latencies |-> latencies, latency |-> NoLatency]
  /\ db = EmptyDb
  /\ WorkerInit
  /\ gc = NoCall
  /\ routed = NoCall
  /\ tour = NoCall
  /\ hrun = NoCall
  /\ cls = NoCall
  /\ cm = NoCall

\* record_trace builds the latency_breakdown it inserts.
RecordLatency ==
  /\ call.phase = "call"
  /\ call' = [call EXCEPT !.phase = "recorded",
                          !.latency = latency_payload(call.latencies)]
  /\ UNCHANGED <<db, clock, pc, sel, hist, gc, routed, tour, hrun, cls, cm>>

SpecLatency == InitLatency /\ [][RecordLatency]_vars

\* ---------------------------------------------------- _extract_python_code
(* A response is the sequence of its lines (str.splitlines); the empty     *)
(* string is <<>>.  The lines a response is made of here: blank, prose,    *)
(* indented code, the fences a model writes, and prose quoting a fence;    *)
(* [fence] stands for the three backquotes of the marker.                  *)
ResponseLines == {"", "text", "  code", "[fence]", "[fence]python", "  [fence]", "a [fence] b"}
Responses == UNION {[1..k -> ResponseLines] : k \in 0..MaxLines}

\* line.strip(); line.lstrip() is the same on these lines
strip_line(line) ==
  CASE line = "  code" -> "code"
    [] line = "  [fence]" -> "[fence]"
    [] OTHER -> line

\* "```" in line
has_marker(line) == line \in {"[fence]", "[fence]python", "  [fence]", "a [fence] b"}

fence_alone(line) == strip_line(line) = "[fence]"

\* line.strip().startswith("```")
starts_fence(line) == strip_line(line) \in {"[fence]", "[fence]python"}

RECURSIVE drop_blank_head(_)
drop_blank_head(lines) ==
  IF lines = <<>> THEN <<>>
  ELSE IF Head(lines) = "" THEN drop_blank_head(Tail(lines))
  ELSE lines

RECURSIVE drop_blank_tail(_)
drop_blank_tail(lines) ==
  IF lines = <<>> THEN <<>>
  ELSE IF lines[Len(lines)] = "" THEN drop_blank_tail(SubSeq(lines, 1, Len(lines) - 1))
  ELSE lines

(* str.strip() on a text of several lines: the blank lines at both ends    *)
(* go, and the white space before the first line that is left.             *)
strip_text(lines) ==
  LET kept == drop_blank_tail(drop_blank_head(lines)) IN
  IF kept = <<>> THEN <<>>
  ELSE <<strip_line(Head(kept))>> \o Tail(kept)

\* The loop over the lines: what accumulator holds when it ends.
RECURSIVE accumulate(_, _)
accumulate(lines, in_block) ==
  IF lines = <<>> THEN <<>>
  ELSE IF starts_fence(Head(lines))
  THEN (IF in_block THEN <<>> ELSE accumulate(Tail(lines), TRUE))
  ELSE IF in_block THEN <<Head(lines)>> \o accumulate(Tail(lines), TRUE)
  ELSE accumulate(Tail(lines), FALSE)

_extract_python_code(response) ==
  LET stripped == strip_text(response) IN
  IF \A i \in DOMAIN stripped : ~has_marker(stripped[i]) THEN stripped
  ELSE LET accumulator == accumulate(stripped, FALSE) IN
       IF accumulator # <<>> THEN strip_text(accumulator) ELSE stripped

InitExtract ==
  /\ \E response \in Responses :
       call = [phase |-> "call", response |-> response, code |-> <<>>]
  /\ db = EmptyDb
  /\ WorkerInit
  /\ gc = NoCall
  /\ routed = NoCall
  /\ tour = NoCall
  /\ hrun = NoCall
  /\ cls = NoCall
  /\ cm = NoCall

ExtractCode ==
  /\ call.phase = "call"
  /\ call' = [call EXCEPT !.phase = "returned",
                          !.code = _extract_python_code(call.response)]
  /\ UNCHANGED <<db, clock, pc, sel, hist, gc, routed, tour, hrun, cls, cm>>

SpecExtract == InitExtract /\ [][ExtractCode]_vars

\* ------------------------------------------------- properties of the queue
Terminal == {"succeeded", "failed"}

\* C1: for every run id, process_one is started at most once, however many
\* workers poll the runs table.
C1_StartedAtMostOnce ==
  \A r \in 1..MaxRuns : hist[r].starts <= 1

Backward(a, b) ==
  \/ a = "running" /\ b = "queued"
  \/ a \in Terminal /\ b \in {"running", "queued"}
  \/ a \in Terminal /\ b \in Terminal /\ a # b

\* C2: no step takes a run from running back to queued, from succeeded or
\* failed back to running or queued, or from one terminal status to the other.
C2_StatusOnlyForward ==
  [][\A r \in RunIds(db) : ~Backward(db.runs[r].status, db'.runs[r].status)]_vars

\* C3: a run that process_one left succeeded or failed has exactly one
\* committed trace row.
C3_ExactlyOneTrace ==
  \A r \in RunIds(db) :
    db.runs[r].status \in Terminal => Cardinality(TracesOf(db, r)) = 1

\* C4: a worker never moves a run to running while an older run is still
\* queued.
C4_OldestFirst ==
  [][\A r \in RunIds(db) :
       (db.runs[r].status # "running" /\ db'.runs[r].status = "running")
       => ~\E o \in Queued(db) : db.runs[o].created_at < db.runs[r].created_at]_vars

\* Two runs are queued and a worker's SELECT returned the older one.
C4_Witness ==
  \E w \in Workers, o \in RunIds(db) :
    /\ pc[w] = "picked"
    /\ db.runs[sel[w]].status = "queued"
    /\ db.runs[o].status = "queued"
    /\ db.runs[sel[w]].created_at < db.runs[o].created_at

\* C5: no step makes a worker leave its loop, and a worker that caught an
\* exception goes nowhere but back to polling.
C5_LoopSurvives ==
  [][\A w \in Workers :
       /\ pc'[w] \in {"poll", "picked", "process", "caught"}
       /\ pc[w] = "caught" => pc'[w] \in {"caught", "poll"}]_vars

\* A worker is back in its loop after process_one raised on its run, which
\* is left running, and another run is there for it to claim.
C5_Witness ==
  \E w \in Workers :
    /\ pc[w] = "caught"
    /\ sel[w] # 0
    /\ db.runs[sel[w]].status = "running"
    /\ hist[sel[w]].starts >= 1
    /\ Queued(db) # {}

\* C6: a provider call is made for a run only after the budget guard was
\* evaluated for it and allowed it.
C6_GuardBeforeProvider ==
  \A r \in 1..MaxRuns : hist[r].billed => hist[r].guard = "allowed"

\* ------------------------------------------- properties of the budget guard
GuardVerdict(expected_cost, budget) ==
  IF expected_cost <= 0 THEN "allow"
  ELSE IF budget <= 0 THEN "missing_budget"
  ELSE IF expected_cost > budget THEN "budget_exceeded"
  ELSE "allow"

\* C7: the guard allows when the expected cost is <= 0, else fails with
\* missing_budget when the budget is <= 0, else fails with budget_exceeded
\* when the cost is above the budget, else allows; a rejected run is failed
\* with that one reason, an allowed run is left as it was.
C7_GuardCost ==
  gc.phase = "returned" =>
    LET run == db.runs[1]
        raw == run.profile.budget_usd
        decision == GuardVerdict(gc.expected_cost,
                                 IF raw.kind = "num" THEN raw.v ELSE 0)
    IN  IF decision = "allow"
        THEN gc.ok /\ run = GuardRun(raw)
        ELSE /\ ~gc.ok
             /\ run.status = "failed"
             /\ run.diffs = << decision >>

\* The guard returned on a positive expected cost equal to the budget.
C7_Witness ==
  /\ gc.phase = "returned"
  /\ gc.expected_cost > 0
  /\ db.runs[1].profile.budget_usd = Budget(gc.expected_cost)
  /\ gc.ok

\* ------------------------------------------------ properties of the dispatch
\* The predicate of each branch of process_one.
Matches(h, k) ==
  LET d == DomainOf(k) IN
  CASE h = "efficiency" -> d = "efficiency" \/ k.metric = "token_delta"
    [] h = "coding_competition" -> d = "coding" /\ k.suite
    [] h = "vision" -> d = "vision"
    [] h = "multimodal_guard" -> k.mm
    [] h = "gsm8k" -> d = "reasoning-math" /\ k.prefix = "gsm8k"
    [] h = "swebench" -> d = "coding" /\ k.swe
    [] h = "humaneval" -> d = "coding" /\ k.prefix = "humaneval"
    [] h = "agents" -> d = "agents" /\ k.prefix = "cagent"
    [] h = "computer_use" -> d = "computer-use" /\ k.prefix = "cgui"
    [] h = "fallback" -> TRUE

FirstMatch(order, k) ==
  order[CHOOSE i \in DOMAIN order :
          Matches(order[i], k) /\ \A j \in 1..(i - 1) : ~Matches(order[j], k)]

NineHandlers == <<"efficiency", "coding_competition", "vision", "gsm8k",
                  "swebench", "humaneval", "agents", "computer_use", "fallback">>

WithMultimodalGuard == <<"efficiency", "coding_competition", "vision",
                         "multimodal_guard", "gsm8k", "swebench", "humaneval",
                         "agents", "computer_use", "fallback">>

\* C8 as stated: every run goes to the first matching handler in the order
\* efficiency, coding competition, vision, GSM8K, SWE-bench, HumanEval,
\* agents, computer-use, fallback.
C8_NineHandlerOrder ==
  routed.phase = "returned" => routed.handler = FirstMatch(NineHandlers, routed.key)

\* C8 amended: every run goes to exactly one branch, the first that matches
\* in the order efficiency, coding competition, vision, the
\* requires_multimodal_harness guard, GSM8K, SWE-bench, HumanEval, agents,
\* computer-use, fallback.
C8_DispatchOrder ==
  routed.phase = "returned" =>
    routed.handler = FirstMatch(WithMultimodalGuard, routed.key)

\* A reasoning-math GSM8K claim that asks for a multimodal harness was
\* dispatched, and went to the guard.
C8_Witness ==
  /\ routed.phase = "returned"
  /\ routed.key = KeyMultimodal
  /\ routed.handler = "multimodal_guard"

\* ---------------------------------------------- properties of the tournament
CoveredUnits(result) ==
  Cardinality({u \in (DOMAIN result.tasks) \X (0..Len(result.comparators)) :
                 u[2] = 0 \/ u[2] \in DOMAIN result.tasks[u[1]].comparators})

\* C9: a tournament over K comparators and T tasks never returns a result
\* that covers fewer than T*(K+1) units.
C9_NoPartialResult ==
  tour.phase = "returned" =>
    CoveredUnits(tour.result) = Len(tour.tasks_data) * (tour.K + 1)

\* The result slot of a unit that did this.
OwnResult(outcome) ==
  [set |-> TRUE, success |-> outcome = "pass",
   input_tokens |-> IF outcome = "exception" THEN 0 ELSE 1,
   stderr |-> CASE outcome = "pass" -> "none"
                [] outcome = "fail" -> "assertion"
                [] OTHER -> "str(exc)"]

SlotOf(f) ==
  LET pos == CHOOSE p \in DOMAIN tour.active : tour.active[p] = f[1] IN
  IF f[2] = 0 THEN tour.primary[pos] ELSE tour.comparators[pos][f[2]]

ResultOf(f) ==
  LET pos == CHOOSE p \in DOMAIN tour.active : tour.active[p] = f[1] IN
  IF f[2] = 0 THEN tour.result.tasks[pos].primary
  ELSE tour.result.tasks[pos].comparators[f[2]]

\* C10: an exception in one unit becomes that unit's failed result (no
\* success, zero tokens, the error text) and nothing more: the tournament
\* does not raise for it, and every unit that has finished, in whatever
\* order, holds its own result in its own slot and in the returned result.
C10_UnitFailureIsolated ==
  /\ tour.phase = "raised" => tour.error # "exception of a unit"
  /\ tour.phase \in {"running", "returned", "raised"} =>
       \A f \in DOMAIN tour.ran :
         tour.ran[f] # "none" => SlotOf(f) = OwnResult(tour.ran[f])
  /\ tour.phase = "returned" =>
       \A f \in DOMAIN tour.ran :
         tour.ran[f] # "none" /\ ResultOf(f) = OwnResult(tour.ran[f])

\* A tournament returned with one unit that raised and others that passed
\* and failed.
C10_Witness ==
  /\ tour.phase = "returned"
  /\ \E f, g, h \in DOMAIN tour.ran :
       /\ tour.ran[f] = "exception"
       /\ tour.ran[g] = "pass"
       /\ tour.ran[h] = "fail"

\* ------------------------------------------- properties of a run's outcome
\* C11: a run labelled Underspecified is succeeded, has a null score and
\* null confidence bounds, and carries a diagnostic with a reason.
C11_UnderspecifiedShape ==
  \A r \in RunIds(db) :
    db.runs[r].status_label = "Underspecified" =>
      /\ db.runs[r].status = "succeeded"
      /\ db.runs[r].score = "null"
      /\ db.runs[r].ci = "null"
      /\ Len(db.runs[r].diffs) >= 1

\* C12: a run whose status is failed carries a diagnostic with a reason.
C12_FailedHasReason ==
  \A r \in RunIds(db) :
    db.runs[r].status = "failed" => Len(db.runs[r].diffs) >= 1

\* ------------------------------------------ properties of the provider calls
\* The status codes the retry policy names as transient.
TransientCodes == {408, 409, 425, 429, 500, 502, 503, 504} \cup (521..529)

\* C13: in the GSM8K harness, a call that succeeds after k failures with
\* retriable statuses (k below the cap) returns after k+1 attempts and k
\* delays; a failure with a retriable status before the cap is reached is
\* followed by one delay and another attempt; a failure with a
\* non-retriable status raises at once, without a delay.
C13_RetryThenSucceed ==
  [][hrun.phase = "running" /\ hrun.kind = "gsm8k" =>
       LET o == hrun'.last
           k == hrun.calls
           cap == MAX_RETRIES(hrun.retries_env)
       IN  /\ o.ok => /\ hrun'.phase # "raised"
                      /\ hrun.sleeps = k
                      /\ k < cap
           /\ (~o.ok /\ o.status \in TransientCodes /\ k + 1 < cap) =>
                /\ hrun'.phase = "running"
                /\ hrun'.sleeps = k + 1
           /\ (~o.ok /\ o.status \notin TransientCodes /\ ~o.transient) =>
                /\ hrun'.phase = "raised"
                /\ hrun'.sleeps = hrun.sleeps]_vars

\* C14: the GSM8K harness makes at most MAX_RETRIES attempts per call, a
\* number that is 5 by default and never below 1; a transient error fails
\* the run only after that many attempts, as the last error; the delay
\* before retry k is at least base*2^k and less than base*2^k + 0.5 s.
C14_BoundedRetries ==
  hrun.phase # "none" /\ hrun.kind = "gsm8k" =>
    LET cap == MAX_RETRIES(hrun.retries_env)
        base == BACKOFF_BASE_SECONDS(hrun.base_env)
    IN  /\ cap >= 1
        /\ ~hrun.retries_env.set => cap = 5
        /\ hrun.calls <= cap
        /\ hrun.sleeps > 0 =>
             /\ hrun.delay >= base * Pow2(hrun.slept_after)
             /\ hrun.delay < base * Pow2(hrun.slept_after) + 5
        /\ (hrun.phase = "raised" /\ hrun.last.status \in TransientCodes) =>
             /\ hrun.calls = cap
             /\ hrun.error = "last"
             /\ db.runs[1].status = "failed"

\* C15: by its status code alone, a failure is retriable exactly when the
\* code is 408, 409, 425, 429, 500, 502, 503, 504 or one of 521..529.
C15_RetriableCodes ==
  (cls.phase = "returned" /\ ~cls.transient) =>
    (cls.retriable <=> cls.status \in TransientCodes)

\* C16: the HumanEval harness does not fail the run on a retriable status
\* before it has made as many attempts as the cap allows.
C16_HumanEvalRetries ==
  (/\ hrun.phase = "raised"
   /\ hrun.kind = "humaneval"
   /\ hrun.last.status \in TransientCodes) =>
    hrun.calls >= MAX_RETRIES(hrun.retries_env)

\* --------------------------------------- properties of the provider dispatch
Unsupported(config) ==
  ProviderOf(config) \notin {"anthropic", "openai"} \cup GeminiTags

\* C17: a named model whose provider tag is not supported gets a
\* configuration error without any provider call, and the run it belongs
\* to, as primary or as comparator, does not end succeeded.
C17_UnsupportedProviderFatal ==
  (/\ cm.phase \notin {"none", "call"}
   /\ cm.config.name
   /\ Unsupported(cm.config)) =>
    /\ cm.phase = "raised"
    /\ cm.error = "configuration"
    /\ cm.calls = 0
    /\ db.runs[1].status # "succeeded"

\* C18: after Gemini rejected the configured id as not found or
\* unsupported, the alternatives are tried in their fixed order, discovery
\* is consulted only after all of them failed, the candidate that succeeds
\* first supplies the response, and when all is exhausted the original
\* error is raised; any other rejection is raised with no fallback.
C18_GeminiFallback ==
  (/\ cm.phase # "none"
   /\ cm.handler = "coding_competition"
   /\ ProviderOf(cm.config) \in GeminiTags
   /\ cm.first # "none") =>
    LET names == fallback_names(cm.config)
        n == Len(names)
    IN  /\ \A i \in DOMAIN cm.tried : i <= n => cm.tried[i] = names[i]
        /\ cm.consulted <=> (cm.failed = n /\ cm.phase # "alternatives")
        /\ Len(cm.tried) > n => cm.consulted
        /\ cm.phase = "returned" =>
             /\ cm.model = cm.tried[Len(cm.tried)]
             /\ cm.failed = Len(cm.tried) - 1
        /\ (cm.phase = "raised" /\ cm.first # "other") =>
             /\ cm.failed = n
             /\ cm.consulted
             /\ cm.error = "original"
        /\ cm.first = "other" =>
             /\ cm.phase = "raised"
             /\ cm.error = "original"
             /\ cm.calls = 1
             /\ cm.tried = <<>>
             /\ ~cm.consulted

\* ------------------------------------------------- properties of the traces
\* C19: every trace row of a run that ended succeeded with a score has a
\* harness digest, a dataset digest and the seeds of the evaluation.
C19_TracePinsEvaluation ==
  \A i \in DOMAIN db.traces :
    LET run == db.runs[db.traces[i].run_id] IN
    (run.status = "succeeded" /\ run.score # "null") =>
      /\ db.traces[i].harness_digest
      /\ db.traces[i].dataset_digest
      /\ db.traces[i].seeds # "none"

\* ------------------------------------------------- properties of the claims
\* C20: the validation count of a run's claim is 1 when the run was
\* evaluated to a succeeded result and 0 when the run ended failed; it
\* never decreases, and it grows only in the step that commits the result.
C20_ValidationCount ==
  /\ [](\A r \in RunIds(db) :
          LET run == db.runs[r]
              n == db.claims[ClaimOf(r)]
          IN  /\ n <= 1
              /\ run.status = "failed" => n = 0
              /\ (run.status = "succeeded" /\ run.score # "null") => n = 1)
  /\ [][\A r \in RunIds(db) :
          LET n == db.claims[ClaimOf(r)]
              m == db'.claims[ClaimOf(r)]
          IN  /\ m >= n
              /\ m > n => /\ db'.runs[r].status = "succeeded"
                          /\ db'.runs[r].score # "null"
                          /\ db'.runs[r] # db.runs[r]]_vars

\* ------------------------------------------- properties of the comparisons
SingleModelHandlers == {"gsm8k", "swebench", "humaneval", "agents",
                        "computer_use", "fallback"}

HasDiff(run, reason) == \E i \in DOMAIN run.diffs : run.diffs[i] = reason

Requested == {call.comparators[i] : i \in DOMAIN call.comparators}

Absent(name) == resolve(call.models, name).raised

Outscores(name) ==
  /\ ~Absent(name)
  /\ resolve(call.models, name).entry.accuracy > call.report.score_value

VisionEvaluated == call.phase = "returned" /\ ~call.report.raised

\* C22 as stated: a requested comparator that is in the fixtures and scores
\* strictly higher than the primary gives the label Not Reproduced; a
\* requested comparator that is not in the fixtures gives the label
\* Underspecified and is listed as missing.
C22_VisionLabels ==
  VisionEvaluated =>
    /\ (\E c \in Requested : Outscores(c)) =>
         db.runs[1].status_label = "Not Reproduced"
    /\ \A c \in Requested : Absent(c) =>
         /\ db.runs[1].status_label = "Underspecified"
         /\ InSeq(c, call.report.missing)

\* C22, amended: the label is Underspecified exactly when some requested
\* comparator is not in the fixtures, and each such comparator is listed as
\* missing; the label is Not Reproduced exactly when requires_comparison is
\* set, no requested comparator is missing and some requested comparator
\* scores strictly higher than the primary.
C22_VisionLabelsAmended ==
  VisionEvaluated =>
    /\ db.runs[1].status = "succeeded"
    /\ db.runs[1].status_label = "Underspecified" <=>
         \E c \in Requested : Absent(c)
    /\ \A c \in Requested : Absent(c) <=> InSeq(c, call.report.missing)
    /\ db.runs[1].status_label = "Not Reproduced" <=>
         /\ db.runs[1].profile.cmp
         /\ \A c \in Requested : ~Absent(c)
         /\ \E c \in Requested : Outscores(c)

C22_Witness ==
  /\ VisionEvaluated
  /\ \E c \in Requested : Outscores(c)
  /\ db.runs[1].status_label = "Not Reproduced"

\* -------------------------------------- properties of the SWE-bench handler
\* C23: a SWE-bench run that process_one has stored as succeeded was
\* evaluated, with a predictions reference (external CLI) or without one
\* (bundled fixtures): it has a score.
C23_SwebenchEvaluated ==
  \A r \in RunIds(db) :
    LET run == db.runs[r] IN
    (/\ run.profile.ctx
     /\ Route(run.profile.key) = "swebench"
     /\ run.status = "succeeded") =>
      /\ run.score # "null"
      /\ ~HasDiff(run, "missing_predictions")

\* ------------------------------------------- properties of the agents suite
AllMatched(steps) == \A i \in DOMAIN steps : steps[i] = "match"

\* C24: a step is recorded as succeeded exactly when its tool returned the
\* expected output, and the suite's successes are the tasks whose steps
\* all matched.
C24_ExactMatchSteps ==
  call.phase = "returned" =>
    /\ \A t \in DOMAIN call.tasks : \A i \in DOMAIN call.tasks[t] :
         call.result.tasks[t].steps[i].success <=> call.tasks[t][i] = "match"
    /\ call.result.successes =
         Cardinality({t \in DOMAIN call.tasks : AllMatched(call.tasks[t])})

\* ----------------------------------------- properties of the aggregation
UnitsPassed(m) ==
  Cardinality({pos \in DOMAIN tour.active : tour.ran[<<tour.active[pos], m>>] = "pass"})

IsQuotient(rate, n, d) == rate.den > 0 /\ rate.num * d = n * rate.den

\* C25: in the result of a tournament, for the primary and for every
\* comparator, attempted is the number of tasks evaluated, passed is the
\* number of the model's units whose tests succeeded, pass_rate is passed /
\* attempted (1 when every unit succeeded), and the record of each task
\* keeps the outcome of the primary and of every comparator.
C25_Aggregation ==
  tour.phase = "returned" =>
    LET result == tour.result
        n == Len(tour.active)
    IN  /\ result.baseline.attempted = n
        /\ result.baseline.passed = UnitsPassed(0)
        /\ IsQuotient(result.baseline.pass_rate, UnitsPassed(0), n)
        /\ DOMAIN result.comparators = 1..tour.K
        /\ \A m \in 1..tour.K :
             /\ result.comparators[m].attempted = n
             /\ result.comparators[m].passed = UnitsPassed(m)
             /\ IsQuotient(result.comparators[m].pass_rate, UnitsPassed(m), n)
        /\ DOMAIN result.tasks = DOMAIN tour.active
        /\ \A pos \in DOMAIN tour.active :
             /\ result.tasks[pos].task_id = tour.active[pos]
             /\ result.tasks[pos].primary.success <=>
                  tour.ran[<<tour.active[pos], 0>>] = "pass"
             /\ DOMAIN result.tasks[pos].comparators = 1..tour.K
             /\ \A m \in 1..tour.K :
                  result.tasks[pos].comparators[m].success <=>
                    tour.ran[<<tour.active[pos], m>>] = "pass"
        /\ (\A f \in DOMAIN tour.ran : tour.ran[f] = "pass") =>
             /\ result.baseline.pass_rate.num = result.baseline.pass_rate.den
             /\ \A m \in 1..tour.K :
                  result.comparators[m].pass_rate.num =
                    result.comparators[m].pass_rate.den

C25_Witness ==
  /\ tour.phase = "returned"
  /\ tour.K = 1
  /\ Len(tour.active) = 1
  /\ \A f \in DOMAIN tour.ran : tour.ran[f] = "pass"
  /\ tour.result.baseline.pass_rate = Rate(1, 1)
  /\ tour.result.comparators[1].pass_rate = Rate(1, 1)

\* --------------------------------------------- properties of the progress
\* C29: a tournament called with a progress callback is run, emits at least
\* one progress event, and its last event reports every unit and every
\* task as completed.
C29_ProgressCallback ==
  (tour.phase \in {"returned", "raised"} /\ tour.progress_callback) =>
    /\ tour.error # "TypeError"
    /\ tour.phase = "returned" =>
         /\ Len(tour.events) >= 1
         /\ tour.events[Len(tour.events)].units_completed =
              tour.events[Len(tour.events)].units_total
         /\ tour.events[Len(tour.events)].tasks_completed =
              tour.events[Len(tour.events)].tasks_total

\* ----------------------------------------------- properties of _run_tests
\* C26: _run_tests returns success exactly when the runner exited with
\* code 0 within the timeout; after a non-zero exit it returns failure
\* with the captured stderr, or stdout if stderr is empty; after a timeout
\* it returns failure with stderr "timeout"; the temporary directory is
\* gone when the result is returned.
C26_RunTests ==
  call.phase = "returned" =>
    /\ call.result.success <=>
         (call.proc.kind = "exit" /\ call.proc.returncode = 0)
    /\ (call.proc.kind = "exit" /\ call.proc.returncode # 0) =>
         call.result.stderr =
           (IF call.proc.stderr # "" THEN call.proc.stderr ELSE call.proc.stdout)
    /\ call.proc.kind = "timeout" => call.result.stderr = "timeout"
    /\ call.td = "removed"

C26_Witness ==
  /\ call.phase = "returned"
  /\ call.proc.kind = "timeout"
  /\ ~call.result.success
  /\ call.result.stderr = "timeout"
  /\ call.td = "removed"

\* --------------------------------------------- properties of bootstrap_ci
Below(sums, v) == Cardinality({i \in DOMAIN sums : sums[i] < v})
UpTo(sums, v) == Cardinality({i \in DOMAIN sums : sums[i] <= v})

\* v is what stands at position k (from 0) when sums is put in order.
AtSortedPosition(sums, k, v) == Below(sums, v) <= k /\ k < UpTo(sums, v)

\* C27: every call of bootstrap_ci with the same values, n, reps and seed
\* returns the same pair; for values from {0, 1} the pair satisfies
\* 0 <= lower <= upper <= 1, and lower and upper are the resample means at
\* the sorted positions int(0.025 * reps) and int(0.975 * reps).
C27_BootstrapCI ==
  (call.phase = "call" /\ call.calls >= 1) =>
    /\ call.last.lo = call.first.lo
    /\ call.last.hi = call.first.hi
    /\ 0 <= call.last.lo
    /\ call.last.lo <= call.last.hi
    /\ call.last.hi <= call.n
    /\ Len(call.last.drawn) = call.reps
    /\ AtSortedPosition(call.last.drawn, (25 * call.reps) \div 1000, call.last.lo)
    /\ AtSortedPosition(call.last.drawn, (975 * call.reps) \div 1000, call.last.hi)

C27_Witness ==
  /\ call.phase = "call"
  /\ call.calls = 2
  /\ call.reps = 3
  /\ call.last = call.first
  /\ call.last.lo < call.last.hi

\* ------------------------------------------- properties of compute_digest
\* The set of files a path list denotes.
FileSet(paths) == {resolve_entry(paths[i]) : i \in DOMAIN paths} \cap {1, 2}

\* The entries that name a directory or nothing at all.
NotRegularFiles == {"data", "gone.json"}

\* C37: a non-empty list made only of paths that do not exist or are not
\* regular files has the digest of the empty list, and record_trace stores
\* that digest as the harness digest, without an error.
C37_MissingPathsIgnored ==
  (/\ call.phase = "recorded"
   /\ call.left # <<>>
   /\ \A i \in DOMAIN call.left : call.left[i] \in NotRegularFiles) =>
    /\ call.left_digest = compute_digest(<<>>)
    /\ call.left_digest = <<>>
    /\ call.harness_commit_sha = [kind |-> "sha256", fed |-> <<>>]

\* record_trace stored the digest of a list naming a directory and a
\* missing file.
C37_Witness ==
  /\ call.phase = "recorded"
  /\ call.left = <<"data", "gone.json">>
  /\ call.harness_commit_sha.kind = "sha256"

\* C28: two path lists that denote the same set of files have the same
\* digest, whatever their order, and the digest of an empty list is the
\* hash of zero input.
C28_DigestOverSets ==
  call.phase = "digests" =>
    /\ FileSet(call.left) = FileSet(call.right) => call.left_digest = call.right_digest
    /\ call.left = <<>> => call.left_digest = <<>>

\* ------------------------------------------------ properties of the labels
StatusLabels == {"Replicated", "Setting Drift", "Underspecified", "Not Reproduced", "Failed"}

\* C30: every run in a terminal status has a status label among Replicated,
\* Setting Drift, Underspecified, Not Reproduced and Failed, and every run
\* that is failed, one rejected by the budget guard included, is labelled
\* Failed.
C30_TerminalLabel ==
  \A r \in RunIds(db) :
    /\ db.runs[r].status \in {"succeeded", "failed"} => db.runs[r].status_label \in StatusLabels
    /\ db.runs[r].status = "failed" => db.runs[r].status_label = "Failed"

\* ---------------------------------------------- properties of termination
\* C31: every run a worker moved to running is eventually succeeded or
\* failed, also when its handler raises an exception it does not catch.
C31_RunningEnds ==
  \A r \in 1..MaxRuns :
    (r \in RunIds(db) /\ db.runs[r].status = "running")
      ~> (r \in RunIds(db) /\ db.runs[r].status \in Terminal)

\* ------------------------------------------- properties of the collection
\* The slot of unit f in tournament state t.
SlotIn(t, f) ==
  LET pos == CHOOSE p \in DOMAIN t.active : t.active[p] = f[1] IN
  IF f[2] = 0 THEN t.primary[pos] ELSE t.comparators[pos][f[2]]

\* C32: the code after the pool (the accumulators of the aggregation) runs
\* only when every submitted unit has completed and been collected; while
\* the pool runs, each step of the collecting loop writes the one slot of
\* the unit it collected, which was empty until then, and no slot is
\* written afterwards.
C32_CollectThenAccumulate ==
  [][/\ (tour.phase = "running" /\ tour'.phase # "running") =>
          /\ tour.pending = {}
          /\ \A f \in DOMAIN tour.ran : tour.ran[f] # "none" /\ SlotIn(tour, f).set
          /\ tour'.primary = tour.primary
          /\ tour'.comparators = tour.comparators
     /\ (tour.phase = "running" /\ tour'.phase = "running") =>
          \E f \in tour.pending :
            /\ tour'.pending = tour.pending \ {f}
            /\ ~SlotIn(tour, f).set
            /\ SlotIn(tour', f).set
            /\ \A g \in DOMAIN tour.ran \ {f} : SlotIn(tour', g) = SlotIn(tour, g)
     /\ tour.phase = "returned" => tour'.primary = tour.primary
    ]_vars

\* A tournament of two tasks and one comparator returned: four units were
\* collected, in some order, before the aggregation.
C32_Witness ==
  /\ tour.phase = "returned"
  /\ Len(tour.active) = 2
  /\ tour.K = 1
  /\ tour.pending = {}
  /\ tour.result.baseline.attempted = 2

\* ---------------------------------------------- properties of SWE-bench
\* C33: on the CLI path and on the fixture path alike, the pass count the
\* dispatcher derives from the per-case records agrees with the reported
\* score (passed / n = score_value), and the confidence interval is
\* computed from that pass count.
C33_PassCountMatchesScore ==
  (call.phase = "stored" /\ call.summary.n > 0) =>
    /\ call.summary.passed * call.summary.score_value.den =
         call.summary.score_value.num * call.summary.n
    /\ call.summary.ci_ones = call.summary.passed
    /\ call.summary.ci_ones + call.summary.ci_zeros = call.summary.ci_n

\* ------------------------------------------------ properties of the trace id
\* C34: after a run is processed, the trace_id stored on it is the id of a
\* trace row whose run_id is that run.
C34_TraceIdResolves ==
  \A r \in RunIds(db) :
    (db.runs[r].status \in Terminal /\ hist[r].starts >= 1) =>
      \E i \in TracesOf(db, r) : db.traces[i].id = db.runs[r].trace_id

\* ------------------------------------------------ properties of discovery
\* C35: once a live listing query has returned at least one usable model,
\* no thread makes another live query until more than
\* _GEMINI_DISCOVERY_TTL seconds have passed.
C35_NoQueryWithinTTL ==
  call.phase = "discovery" =>
    \A i, j \in DOMAIN call.queries :
      (i < j /\ call.queries[i].usable) =>
        call.queries[j].at - call.queries[i].at > _GEMINI_DISCOVERY_TTL

\* The names of a cache that match one of the preferred ids.
Matching(cache) ==
  {n \in cache : \E k \in DOMAIN PreferredNames : short_name(n) = PreferredNames[k]}

Greatest(names) == CHOOSE n \in names : \A m \in names : NameRank(m) <= NameRank(n)

NearestTiesEven(k, num) ==
  /\ 2 * (100 * k - num) <= 100
  /\ 2 * (num - 100 * k) <= 100
  /\ (2 * (100 * k - num) = 100 \/ 2 * (num - 100 * k) = 100) => k % 2 = 0

\* v is the sample at index round((len - 1) * fraction) of the sorted samples.
IsPercentile(samples, fraction, v) ==
  \E k \in 0..(Len(samples) - 1) :
    /\ NearestTiesEven(k, (Len(samples) - 1) * fraction)
    /\ AtSortedPosition(samples, k, v)

\* C38: p50 and p95 of the latency summary are the samples at index
\* round((len - 1) * fraction) of the sorted samples, an index within
\* [0, len - 1]; one sample is its own p50 and p95; with no samples no
\* latency summary is stored.
C38_LatencySummary ==
  call.phase = "recorded" =>
    /\ call.latencies = <<>> => ~call.latency.stored
    /\ call.latencies # <<>> =>
         /\ call.latency.stored
         /\ call.latency.samples = call.latencies
         /\ IsPercentile(call.latencies, 50, call.latency.p50)
         /\ IsPercentile(call.latencies, 95, call.latency.p95)
    /\ Len(call.latencies) = 1 =>
         /\ call.latency.p50 = call.latencies[1]
         /\ call.latency.p95 = call.latencies[1]

\* Two samples: p50 is the lower one (round(0.5) is 0), p95 the higher.
C38_Witness ==
  /\ call.phase = "recorded"
  /\ call.latencies = <<3, 1>>
  /\ call.latency.p50 = 1
  /\ call.latency.p95 = 3

\* ------------------------------------------- properties of code extraction
FenceLines == {"[fence]", "[fence]python", "  [fence]"}
MarkerLines == FenceLines \cup {"a [fence] b"}

\* The trimmed response: no blank line at either end, no indent on line 1.
Trimmed(lines) ==
  LET first == CHOOSE i \in 1..(Len(lines) + 1) :
                 /\ i <= Len(lines) => lines[i] # ""
                 /\ \A k \in 1..(i - 1) : lines[k] = ""
      last == CHOOSE j \in 0..Len(lines) :
                /\ j >= 1 => lines[j] # ""
                /\ \A k \in (j + 1)..Len(lines) : lines[k] = ""
  IN  [i \in 1..(IF last >= first THEN last - first + 1 ELSE 0) |->
         IF i = 1 /\ lines[first] \in {"  code", "  [fence]"}
         THEN (IF lines[first] = "  code" THEN "code" ELSE "[fence]")
         ELSE lines[first + i - 1]]

\* The lines after the first fence line, up to the next fence line or the
\* end; <<>> when the text has no fence line.
FencedBody(text) ==
  LET fences == {i \in DOMAIN text : text[i] \in FenceLines} IN
  IF fences = {} THEN <<>>
  ELSE LET open == CHOOSE i \in fences : \A k \in fences : i <= k
           later == {k \in fences : k > open}
           close == IF later = {} THEN Len(text) + 1
                    ELSE CHOOSE k \in later : \A m \in later : k <= m
       IN  SubSeq(text, open + 1, close - 1)

====
